---- MODULE Spec2Model ----
(***************************************************************************)
(* Model of the agentic retrieval workflow of bedtimenews-agent            *)
(* (agent/src/graph.py) together with the retriever and its result cache   *)
(* (agent/src/retriever.py, agent/src/cache.py).                           *)
(*                                                                         *)
(* Text is modelled as a sequence of one-character strings, so that        *)
(* strip(), upper(), split("\n") and re.findall(r"\d+") are computed the   *)
(* way the code computes them.  Language-model outputs, search results and *)
(* the question are the nondeterministic inputs of a run.                  *)
(***************************************************************************)
EXTENDS Integers, Sequences, FiniteSets, TLC

(* ---------------------------------------------------------------------- *)
(* Bounds of the model                                                     *)
(* ---------------------------------------------------------------------- *)
NumChunks == 2      \* chunk ids 1..NumChunks exist in the vector store
MaxResults == 1     \* longest result list one search returns in a workflow run
IterCap == 3        \* cap on iteration_count in the guard of the rewrite step
MaxGradeDocs == 5   \* longest candidate list of the grading specification
MaxGradeLen == 3    \* longest generated grading response
MergeLen == 16      \* longest result list of the merge specification
MergeStride == 10   \* distance between the chunk-id ranges two searches of it return
MaxCalls == 3       \* cap on the cache's access counter in the retriever specification
MaxCapacity == 2    \* largest capacity of the cache of the cache specifications
MaxCacheCalls == 4  \* longest sequence of get and put calls of the cache specification
MaxThreadOps == 2   \* most cache calls one thread makes in the interleaving specification
MaxContent == 2     \* content versions 1..MaxContent of an indexed file
MaxRuns == 2        \* most pipeline runs of one behaviour of the indexer
MaxOperations == 3  \* most database operations of one behaviour of the pool specification
MaxLines == 3       \* most lines of a document of the chunking specification
MaxBatchSize == 2   \* largest settings.embedding_batch_size of the embedding specification
MaxSegments == 1    \* most path segments between the category and the last segment of a doc_id

(* ---------------------------------------------------------------------- *)
(* Program constants                                                       *)
(* ---------------------------------------------------------------------- *)
DEFAULT_MAX_ITERATIONS == 2
TOP_K == 30
MATCH_COUNT == 100
CACHE_CAPACITY == 1000
MAX_ATTEMPTS == 3           \* retry_on_transient_error(max_attempts=3)
STOP_AFTER_ATTEMPT == 3     \* stop=stop_after_attempt(3)
MAX_TOKENS_PER_INPUT == 8191    \* token limit of one embedding input
TOKEN_BUFFER == 100         \* chunk_size = max_tokens - 100

(* ---------------------------------------------------------------------- *)
(* Text helpers (Python str methods and re.findall)                        *)
(* ---------------------------------------------------------------------- *)
\* A response.content that is not a str (e.g. a list of content blocks).
NonText == <<"<non-text>">>
\* Python None, where it is compared with text.
None == <<"<None>">>

isinstance_str(content) == content # NonText

Whitespace == {" ", "\n", "\t"}
Digits == <<"0", "1", "2", "3", "4", "5", "6", "7", "8", "9">>
LowerCase == <<"a", "b", "c", "d", "e", "f", "g", "h", "i", "j", "k", "l", "m",
               "n", "o", "p", "q", "r", "s", "t", "u", "v", "w", "x", "y", "z">>
UpperCase == <<"A", "B", "C", "D", "E", "F", "G", "H", "I", "J", "K", "L", "M",
               "N", "O", "P", "Q", "R", "S", "T", "U", "V", "W", "X", "Y", "Z">>

IsDigit(ch) == \E i \in 1..Len(Digits) : Digits[i] = ch
DigitValue(ch) == (CHOOSE i \in 1..Len(Digits) : Digits[i] = ch) - 1

upper_char(ch) ==
    IF \E i \in 1..Len(LowerCase) : LowerCase[i] = ch
    THEN UpperCase[CHOOSE i \in 1..Len(LowerCase) : LowerCase[i] = ch]
    ELSE ch

\* str.upper()
upper(s) == [i \in 1..Len(s) |-> upper_char(s[i])]

RECURSIVE lstrip(_)
lstrip(s) ==
    IF s # <<>> /\ Head(s) \in Whitespace THEN lstrip(Tail(s)) ELSE s

RECURSIVE rstrip(_)
rstrip(s) ==
    IF s # <<>> /\ s[Len(s)] \in Whitespace
    THEN rstrip(SubSeq(s, 1, Len(s) - 1))
    ELSE s

\* str.strip()
strip(s) == rstrip(lstrip(s))

\* str.split(sep): the pieces between separators, empty pieces included.
RECURSIVE split_acc(_, _, _, _)
split_acc(s, sep, cur, acc) ==
    IF s = <<>> THEN Append(acc, cur)
    ELSE IF Head(s) = sep THEN split_acc(Tail(s), sep, <<>>, Append(acc, cur))
    ELSE split_acc(Tail(s), sep, Append(cur, Head(s)), acc)

split(s, sep) == split_acc(s, sep, <<>>, <<>>)

\* re.findall(r"\d+", s): the maximal runs of digits, left to right.
RECURSIVE findall_acc(_, _, _)
findall_acc(s, cur, acc) ==
    IF s = <<>> THEN (IF cur = <<>> THEN acc ELSE Append(acc, cur))
    ELSE IF IsDigit(Head(s)) THEN findall_acc(Tail(s), Append(cur, Head(s)), acc)
    ELSE findall_acc(Tail(s), <<>>, IF cur = <<>> THEN acc ELSE Append(acc, cur))

findall_digits(s) == findall_acc(s, <<>>, <<>>)

\* int(n) for a run of digits.
RECURSIVE int_acc(_, _)
int_acc(ds, v) ==
    IF ds = <<>> THEN v ELSE int_acc(Tail(ds), 10 * v + DigitValue(Head(ds)))

int(ds) == int_acc(ds, 0)

\* [f(x) for x in seq if p(x)] helpers
RECURSIVE SelectSeqStripped(_)
SelectSeqStripped(lines) ==
    IF lines = <<>> THEN <<>>
    ELSE IF strip(Head(lines)) # <<>>
         THEN <<strip(Head(lines))>> \o SelectSeqStripped(Tail(lines))
         ELSE SelectSeqStripped(Tail(lines))

Range(s) == {s[i] : i \in 1..Len(s)}

\* sorted(set_of_ints)
RECURSIVE sorted(_)
sorted(S) ==
    IF S = {} THEN <<>>
    ELSE LET m == CHOOSE x \in S : \A y \in S : x <= y
         IN <<m>> \o sorted(S \ {m})

(* ---------------------------------------------------------------------- *)
(* cache.py: hash_query and LRUCache                                       *)
(* An LRUCache object is the record                                        *)
(*   [capacity, cache (key -> <<value, access_count>>), _access_counter].  *)
(* ---------------------------------------------------------------------- *)
\* The key string f"{query}:{match_threshold}:{match_count}"; its MD5 digest
\* is taken to be injective, so the key string stands for the digest.
hash_query(query, match_threshold, match_count) ==
    query \o <<":", match_threshold, ":", match_count>>

\* LRUCache.size
LRUCache_size(self) == Cardinality(DOMAIN self.cache)

LRUCache_init(capacity) ==
    [capacity |-> capacity, cache |-> [k \in {} |-> <<>>], _access_counter |-> 0]

\* LRUCache.get that leaves the entry's access count as it was
LRUCache_get_no_touch(self, key) ==
    IF key \in DOMAIN self.cache
    THEN [hit |-> TRUE, value |-> self.cache[key][1], self |-> self]
    ELSE [hit |-> FALSE, value |-> None, self |-> self]

\* LRUCache.get: [hit, value, self]
LRUCache_get(self, key) ==
    IF key \in DOMAIN self.cache
    THEN LET value == self.cache[key][1]
             counter == self._access_counter + 1
         IN [hit |-> TRUE, value |-> value,
             self |-> [self EXCEPT !._access_counter = counter,
                                   !.cache = [self.cache EXCEPT ![key] = <<value, counter>>]]]
    ELSE [hit |-> FALSE, value |-> None, self |-> self]

\* LRUCache._evict_lru: the cache dict without the entry of lowest access count
LRUCache_evict_lru(cache) ==
    IF DOMAIN cache = {} THEN cache
    ELSE LET lru_key == CHOOSE k \in DOMAIN cache :
                            \A j \in DOMAIN cache : cache[k][2] <= cache[j][2]
         IN [k \in DOMAIN cache \ {lru_key} |-> cache[k]]

\* LRUCache.put: the cache object after the call
LRUCache_put(self, key, value) ==
    LET counter == self._access_counter + 1
        kept == IF key \in DOMAIN self.cache THEN self.cache
                ELSE IF Cardinality(DOMAIN self.cache) >= self.capacity
                     THEN LRUCache_evict_lru(self.cache)
                     ELSE self.cache
    IN [self EXCEPT !._access_counter = counter,
                    !.cache = [k \in DOMAIN kept \cup {key} |->
                                  IF k = key THEN <<value, counter>> ELSE kept[k]]]

(* ---------------------------------------------------------------------- *)
(* vector_db.py: search_similar_chunks                                     *)
(* Similarities and thresholds are counted in hundredths.  A similarity    *)
(* table is the set of rows of the query's `similarities` sub-select: one  *)
(* row [chunk_id, doc_id, similarity] per stored chunk.                    *)
(* ---------------------------------------------------------------------- *)
\* The row ORDER BY similarity DESC, chunk_id puts first.
first_row(rows) ==
    CHOOSE r \in rows : \A o \in rows :
        \/ r.similarity > o.similarity
        \/ r.similarity = o.similarity /\ r.chunk_id <= o.chunk_id

RECURSIVE order_by(_)
order_by(rows) ==
    IF rows = {} THEN <<>>
    ELSE <<first_row(rows)>> \o order_by(rows \ {first_row(rows)})

\* LIMIT n
limit(rows, n) == SubSeq(rows, 1, IF Len(rows) < n THEN Len(rows) ELSE n)

search_similar_chunks(table, match_threshold, match_count, doc_id_filter) ==
    LET above == {r \in table : r.similarity >= match_threshold}
        allowed == IF doc_id_filter # None /\ doc_id_filter # <<>>
                   THEN {r \in above : \E i \in 1..Len(doc_id_filter) : doc_id_filter[i] = r.doc_id}
                   ELSE above
    IN limit(order_by(allowed), match_count)

(* ---------------------------------------------------------------------- *)
(* retriever.py: _Retriever.retrieve                                       *)
(* ---------------------------------------------------------------------- *)
\* Stored fields of a chunk, as a function of its id.
ChunkText(chunk_id) == <<"text", chunk_id>>
ChunkHeading(chunk_id) == <<"heading", chunk_id>>
ChunkDocId(chunk_id) == IF chunk_id % 2 = 1 THEN "main/1" ELSE "main/2"

\* settings.match_threshold (MATCH_THRESHOLD, default 0.35), in hundredths.
MatchThreshold == 35

\* The request the retrieve node builds for a query.
RetrieveRequest(query) ==
    [query |-> query, match_count |-> MATCH_COUNT, match_threshold |-> MatchThreshold,
     doc_id_filter |-> None, include_text |-> TRUE, include_heading |-> TRUE]

\* One ChunkResult per row that search_similar_chunks returned, ranked from 1.
ChunkResults(request, rows) ==
    [i \in 1..Len(rows) |->
        [chunk_id |-> rows[i].chunk_id,
         doc_id |-> rows[i].doc_id,
         heading |-> IF request.include_heading THEN ChunkHeading(rows[i].chunk_id) ELSE None,
         text |-> IF request.include_text THEN ChunkText(rows[i].chunk_id) ELSE None,
         similarity |-> rows[i].similarity,
         rank |-> i]]

RetrieveResponse(request, results) ==
    [query |-> request.query, match_threshold |-> request.match_threshold,
     match_count |-> request.match_count, results |-> results]

\* An exception e with str(e) = message
Exception(message) == [message |-> message]

\* What embedding a query and searching with it comes to: the similarity
\* table the search runs over, or a failure of the embedding call (after its
\* retries) or of the search.
Found(table) == [raises |-> "", table |-> table]
EmbeddingRaises == [raises |-> "embedding failed", table |-> {}]
SearchRaises == [raises |-> "search failed", table |-> {}]

\* Variant: the cache is not consulted, every call embeds, searches and stores.
retrieve_uncached(result_cache, request, db) ==
    LET cache_key == hash_query(request.query, request.match_threshold, request.match_count)
        documents == search_similar_chunks(db[request.query].table, request.match_threshold,
                                           request.match_count, None)
        response == RetrieveResponse(request, ChunkResults(request, documents))
    IN IF db[request.query] \in {EmbeddingRaises, SearchRaises}
       THEN [raised |-> TRUE, response |-> Exception(db[request.query].raises), cache |-> result_cache,
             embedded |-> TRUE, searched |-> db[request.query] = SearchRaises]
       ELSE [raised |-> FALSE, response |-> response,
             cache |-> LRUCache_put(result_cache, cache_key, response),
             embedded |-> TRUE, searched |-> TRUE]

\* _Retriever.retrieve(request):
\*   [raised, response, cache, embedded, searched].
\* db[query] is consulted on a cache miss only.  embedded and searched tell
\* whether _generate_embedding and search_similar_chunks were called; when
\* the call raises, response is the exception.
retrieve(result_cache, request, db) ==
    LET cache_key == hash_query(request.query, request.match_threshold, request.match_count)
        cached_result == LRUCache_get(result_cache, cache_key)
    IN IF cached_result.hit
       THEN [raised |-> FALSE, response |-> cached_result.value, cache |-> cached_result.self,
             embedded |-> FALSE, searched |-> FALSE]
       ELSE IF db[request.query] = EmbeddingRaises
       THEN [raised |-> TRUE, response |-> Exception(EmbeddingRaises.raises), cache |-> cached_result.self,
             embedded |-> TRUE, searched |-> FALSE]
       ELSE IF db[request.query] = SearchRaises
       THEN [raised |-> TRUE, response |-> Exception(SearchRaises.raises), cache |-> cached_result.self,
             embedded |-> TRUE, searched |-> TRUE]
       ELSE LET documents == search_similar_chunks(db[request.query].table, request.match_threshold,
                                                   request.match_count, None)
                response == RetrieveResponse(request, ChunkResults(request, documents))
            IN [raised |-> FALSE, response |-> response,
                cache |-> LRUCache_put(cached_result.self, cache_key, response),
                embedded |-> TRUE, searched |-> TRUE]

(* ---------------------------------------------------------------------- *)
(* graph.py: AgentState, the reasoning trace and its reducer               *)
(* ---------------------------------------------------------------------- *)
\* HumanMessage(content=...): a message has no id until the reducer gives it one.
HumanMessage(content) == [id |-> 0, content |-> content]

MaxId(msgs) ==
    IF msgs = <<>> THEN 0
    ELSE CHOOSE m \in {msgs[i].id : i \in 1..Len(msgs)} :
             \A j \in 1..Len(msgs) : msgs[j].id <= m

\* The add_messages reducer of the reasoning_steps channel: messages without
\* an id get a fresh one; a message whose id is already in the channel
\* replaces that entry, any other message is appended.
RECURSIVE merge_messages(_, _, _)
merge_messages(merged, right, fresh) ==
    IF right = <<>> THEN merged
    ELSE LET m == IF Head(right).id = 0 THEN [Head(right) EXCEPT !.id = fresh] ELSE Head(right)
             at == {i \in 1..Len(merged) : merged[i].id = m.id}
         IN merge_messages(IF at = {} THEN Append(merged, m)
                           ELSE [merged EXCEPT ![CHOOSE i \in at : TRUE] = m],
                           Tail(right), fresh + 1)

add_messages(left, right) ==
    merge_messages(left, right, 1 + (IF MaxId(left) >= MaxId(right) THEN MaxId(left) ELSE MaxId(right)))

\* The graph engine's write of a node's returned dict into the state: every
\* key overwrites its channel, reasoning_steps goes through add_messages.
apply_update(state, out) ==
    [out EXCEPT !.reasoning_steps = add_messages(state.reasoning_steps, out.reasoning_steps)]

create_initial_state(question) ==
    [question |-> question,
     needs_retrieval |-> FALSE,
     rewritten_queries |-> <<>>,
     documents |-> <<>>,
     relevant_documents |-> <<>>,
     final_answer |-> <<>>,
     reasoning_steps |-> <<>>,
     iteration_count |-> 0,
     max_iterations |-> DEFAULT_MAX_ITERATIONS]

(* ---------------------------------------------------------------------- *)
(* graph.py: node functions.  Each returns the dict the node returns;      *)
(* content is response.content of the node's language-model call.          *)
(* ---------------------------------------------------------------------- *)
RAG == <<"R", "A", "G">>
GREETING == <<"G", "R", "E", "E", "T", "I", "N", "G">>
NONE == <<"N", "O", "N", "E">>
ALL == <<"A", "L", "L">>

_route_node(state, content) ==
    LET decision == IF isinstance_str(content) THEN upper(strip(content)) ELSE None
        needs_retrieval == decision = RAG
        path_str == IF needs_retrieval THEN "RAG" ELSE "Direct (greeting)"
        reasoning == HumanMessage(<<"[ROUTE] Decision:", decision, "Path:", path_str>>)
    IN [state EXCEPT !.needs_retrieval = needs_retrieval,
                     !.reasoning_steps = <<reasoning>>]

\* The queries parsed from the rewrite model's output.
parse_queries(content) ==
    IF isinstance_str(content)
    THEN SelectSeqStripped(split(strip(content), "\n"))
    ELSE <<>>

\* Variant: the iteration count is not incremented.
_query_rewrite_node_no_increment(state, content) ==
    LET queries == parse_queries(content)
        reasoning == HumanMessage(<<"[QUERY_REWRITE] Generated", Len(queries), "queries:", queries>>)
    IN [state EXCEPT !.rewritten_queries = queries,
                     !.reasoning_steps = state.reasoning_steps \o <<reasoning>>]

\* Variant: the new queries are appended to those of the earlier rounds.
_query_rewrite_node_accumulate(state, content) ==
    LET queries == parse_queries(content)
        reasoning == HumanMessage(<<"[QUERY_REWRITE] Generated", Len(queries), "queries:", queries>>)
        current_iteration == state.iteration_count
    IN [state EXCEPT !.rewritten_queries = state.rewritten_queries \o queries,
                     !.reasoning_steps = state.reasoning_steps \o <<reasoning>>,
                     !.iteration_count = current_iteration + 1]

_query_rewrite_node(state, content) ==
    LET queries == parse_queries(content)
        reasoning == HumanMessage(<<"[QUERY_REWRITE] Generated", Len(queries), "queries:", queries>>)
        current_iteration == state.iteration_count
    IN [state EXCEPT !.rewritten_queries = queries,
                     !.reasoning_steps = state.reasoning_steps \o <<reasoning>>,
                     !.iteration_count = current_iteration + 1]

\* Document(page_content=result.text or "", metadata={...})
Document(result) ==
    [page_content |-> IF result.text = None THEN <<>> ELSE result.text,
     chunk_id |-> result.chunk_id,
     doc_id |-> result.doc_id,
     heading |-> result.heading,
     similarity |-> result.similarity]

\* The loop over the queries: one retriever.retrieve call per query, in
\* order.  A call that raises ends the loop: the exception leaves the node.
\* calls lists the queries retriever.retrieve was called with.
RECURSIVE retrieve_all(_, _, _, _, _)
retrieve_all(queries, result_cache, db, all_chunks, calls) ==
    IF queries = <<>>
    THEN [raised |-> FALSE, message |-> "", all_chunks |-> all_chunks,
          cache |-> result_cache, calls |-> calls]
    ELSE LET returned == retrieve(result_cache, RetrieveRequest(Head(queries)), db)
         IN IF returned.raised
            THEN [raised |-> TRUE, message |-> returned.response.message, all_chunks |-> all_chunks,
                  cache |-> returned.cache, calls |-> Append(calls, Head(queries))]
            ELSE retrieve_all(Tail(queries), returned.cache, db,
                              all_chunks \o [i \in 1..Len(returned.response.results) |->
                                                Document(returned.response.results[i])],
                              Append(calls, Head(queries)))

\* Deduplicate by chunk_id, first occurrence kept.
RECURSIVE dedup_acc(_, _, _)
dedup_acc(chunks, seen_ids, unique_chunks) ==
    IF chunks = <<>> THEN unique_chunks
    ELSE IF Head(chunks).chunk_id \notin seen_ids
         THEN dedup_acc(Tail(chunks), seen_ids \cup {Head(chunks).chunk_id},
                        Append(unique_chunks, Head(chunks)))
         ELSE dedup_acc(Tail(chunks), seen_ids, unique_chunks)

\* Variant: the copy kept of a chunk is the last one fetched.
deduplicate_last_occurrence(all_chunks) ==
    LET first == dedup_acc(all_chunks, {}, <<>>)
    IN [k \in 1..Len(first) |->
           all_chunks[CHOOSE i \in 1..Len(all_chunks) :
                         /\ all_chunks[i].chunk_id = first[k].chunk_id
                         /\ \A j \in (i + 1)..Len(all_chunks) :
                                all_chunks[j].chunk_id # first[k].chunk_id]]

deduplicate(all_chunks) == dedup_acc(all_chunks, {}, <<>>)

\* list.sort(key=similarity, reverse=True): stable, descending.
RECURSIVE insert_desc(_, _)
insert_desc(srt, d) ==
    IF srt = <<>> THEN <<d>>
    ELSE IF Head(srt).similarity >= d.similarity
         THEN <<Head(srt)>> \o insert_desc(Tail(srt), d)
         ELSE <<d>> \o srt

RECURSIVE sort_acc(_, _)
sort_acc(chunks, srt) ==
    IF chunks = <<>> THEN srt ELSE sort_acc(Tail(chunks), insert_desc(srt, Head(chunks)))

sort_by_similarity(chunks) == sort_acc(chunks, <<>>)

\* Variant: no cut after the sort.
top_chunks_uncut(unique_chunks) == unique_chunks

\* unique_chunks[:30]
top_chunks(unique_chunks) ==
    SubSeq(unique_chunks, 1, IF Len(unique_chunks) < TOP_K THEN Len(unique_chunks) ELSE TOP_K)

\* [raised, message, out, cache, calls]: whether the node raised and with
\* what message, the returned dict, the retriever's cache afterwards and the
\* queries retriever.retrieve was called with.
_retrieve_node(state, result_cache, db) ==
    LET queries == state.rewritten_queries
        fetched == retrieve_all(queries, result_cache, db, <<>>, <<>>)
        unique_chunks == sort_by_similarity(deduplicate(fetched.all_chunks))
        top == top_chunks(unique_chunks)
        reasoning == HumanMessage(<<"[RETRIEVE] Retrieved", Len(fetched.all_chunks), "chunks",
                                    Len(unique_chunks), "unique, kept top", Len(top)>>)
    IN [raised |-> fetched.raised,
        message |-> fetched.message,
        out |-> [state EXCEPT !.documents = top,
                              !.reasoning_steps = state.reasoning_steps \o <<reasoning>>],
        cache |-> fetched.cache,
        calls |-> fetched.calls]

\* The parse of the grading response (the if/elif/else of the grade node).
\* int() of a run of digits raises only beyond the interpreter's digit limit
\* and the indices are filtered to the list's range, so for responses of
\* bounded length the except branch is never entered.
\* Variant: the listed documents are taken in the order of the response,
\* without collapsing duplicates.
parse_grading_unsorted(content, documents) ==
    LET response_text == IF isinstance_str(content) THEN upper(strip(content)) ELSE <<>>
    IN IF response_text = NONE THEN <<>>
       ELSE IF response_text = ALL THEN documents
       ELSE LET numbers == findall_digits(response_text)
                listed == SelectSeq(numbers, LAMBDA n : 1 <= int(n) /\ int(n) <= Len(documents))
            IN [k \in 1..Len(listed) |-> documents[int(listed[k])]]

parse_grading(content, documents) ==
    LET response_text == IF isinstance_str(content) THEN upper(strip(content)) ELSE <<>>
    IN IF response_text = NONE THEN <<>>
       ELSE IF response_text = ALL THEN documents
       ELSE LET numbers == findall_digits(response_text)
                relevant_indices == {int(numbers[k]) - 1 : k \in
                                        {j \in 1..Len(numbers) :
                                            1 <= int(numbers[j]) /\ int(numbers[j]) <= Len(documents)}}
                order == sorted(relevant_indices)
            IN [k \in 1..Len(order) |-> documents[order[k] + 1]]

\* Variant: the early return for an empty document list leaves no trace note.
_documents_grade_node_without_note(state, content) ==
    LET documents == state.documents
    IN IF documents = <<>>
       THEN [state EXCEPT !.relevant_documents = <<>>]
       ELSE LET relevant_chunks == parse_grading(content, documents)
                reasoning == HumanMessage(<<"[GRADE] Graded", Len(documents), "documents,",
                                            Len(relevant_chunks), "relevant.">>)
            IN [state EXCEPT !.relevant_documents = relevant_chunks,
                             !.reasoning_steps = state.reasoning_steps \o <<reasoning>>]

_documents_grade_node(state, content) ==
    LET documents == state.documents
    IN IF documents = <<>>
       THEN [state EXCEPT !.relevant_documents = <<>>,
                          !.reasoning_steps = state.reasoning_steps
                              \o <<HumanMessage(<<"[GRADE] No documents to grade.">>)>>]
       ELSE LET relevant_chunks == parse_grading(content, documents)
                reasoning == HumanMessage(<<"[GRADE] Graded", Len(documents), "documents,",
                                            Len(relevant_chunks), "relevant.">>)
            IN [state EXCEPT !.relevant_documents = relevant_chunks,
                             !.reasoning_steps = state.reasoning_steps \o <<reasoning>>]

\* str(response.content)
str(content) == IF isinstance_str(content) THEN content ELSE <<"[", "]">>

_answer_generate_node(state, content) ==
    LET documents == state.relevant_documents
        answer == str(content)
        reasoning == HumanMessage(<<"[GENERATE] Generated answer with", Len(documents),
                                    "documents. Answer length:", Len(answer)>>)
    IN [state EXCEPT !.final_answer = answer,
                     !.reasoning_steps = state.reasoning_steps \o <<reasoning>>]

_direct_answer_node(state, content) ==
    LET answer == str(content)
        reasoning == HumanMessage(<<"[DIRECT] Greeting/meta-question - answered directly.">>)
    IN [state EXCEPT !.final_answer = answer,
                     !.reasoning_steps = state.reasoning_steps \o <<reasoning>>]

(* ---------------------------------------------------------------------- *)
(* graph.py: control flow                                                  *)
(* ---------------------------------------------------------------------- *)
\* Variant: every run takes the retrieval path.
_should_retrieve_always(state) == "retrieve"

_should_retrieve(state) ==
    IF state.needs_retrieval THEN "retrieve" ELSE "direct"

\* Variant: no iteration ceiling in the loop guard.
_should_refine_query_unbounded(state) ==
    IF state.relevant_documents # <<>> THEN "generate" ELSE "rewrite"

\* Variant: the loop guard admits iteration_count = max_iterations.
_should_refine_query_inclusive(state) ==
    IF state.relevant_documents # <<>> THEN "generate"
    ELSE IF state.iteration_count <= state.max_iterations THEN "rewrite"
    ELSE "generate"

\* Variant: the loop guard does not look at relevant_documents.
_should_refine_query_ignores_relevant(state) ==
    IF state.iteration_count < state.max_iterations THEN "rewrite" ELSE "generate"

_should_refine_query(state) ==
    LET relevant_chunks == state.relevant_documents
        iteration_count == state.iteration_count
        max_iterations == state.max_iterations
    IN IF relevant_chunks # <<>> THEN "generate"
       ELSE IF iteration_count < max_iterations THEN "rewrite"
       ELSE "generate"

END == "END"

\* Variant: the direct node is followed by generate.
next_node_direct_continues(node, state) ==
    CASE node = "route" ->
            (IF _should_retrieve(state) = "retrieve" THEN "query_rewrite" ELSE "direct")
      [] node = "query_rewrite" -> "retrieve"
      [] node = "retrieve" -> "grade"
      [] node = "grade" ->
            (IF _should_refine_query(state) = "generate" THEN "generate" ELSE "query_rewrite")
      [] node = "generate" -> END
      [] node = "direct" -> "generate"

\* The edges added in _create_agent_graph: the node that runs after `node`
\* has written its update, given the updated state.
next_node(node, state) ==
    CASE node = "route" ->
            (IF _should_retrieve(state) = "retrieve" THEN "query_rewrite" ELSE "direct")
      [] node = "query_rewrite" -> "retrieve"
      [] node = "retrieve" -> "grade"
      [] node = "grade" ->
            (IF _should_refine_query(state) = "generate" THEN "generate" ELSE "query_rewrite")
      [] node = "generate" -> END
      [] node = "direct" -> END

(* ---------------------------------------------------------------------- *)
(* agent.py: agent_stream_query, the consumer of the graph's events        *)
(* ---------------------------------------------------------------------- *)
\* The step type a node's events are labelled with.
step_type(langgraph_node) ==
    CASE langgraph_node = "route" -> "route"
      [] langgraph_node = "query_rewrite" -> "rewrite"
      [] langgraph_node = "retrieve" -> "retrieve"
      [] langgraph_node = "grade" -> "grade"
      [] langgraph_node \in {"generate", "direct"} -> "generate"

\* f"{langgraph_node}_{step_content}": no node name followed by "_" is a
\* prefix of another node's key, so the key stands for the pair.
step_key(langgraph_node, step_content) == <<langgraph_node, step_content>>

\* Variant: every trace entry of the output is emitted, seen before or not.
RECURSIVE emit_steps_no_dedupe(_, _, _, _)
emit_steps_no_dedupe(langgraph_node, reasoning_steps, emitted_steps, events) ==
    IF reasoning_steps = <<>> THEN [emitted_steps |-> emitted_steps, events |-> events]
    ELSE LET step_content == Head(reasoning_steps).content
         IN emit_steps_no_dedupe(langgraph_node, Tail(reasoning_steps),
                                 emitted_steps \cup {step_key(langgraph_node, step_content)},
                                 Append(events, [type |-> "step", step |-> step_type(langgraph_node),
                                                 content |-> step_content]))

\* The loop over the reasoning_steps of one node's output:
\* [emitted_steps, events], the set afterwards and the events yielded.
RECURSIVE emit_steps(_, _, _, _)
emit_steps(langgraph_node, reasoning_steps, emitted_steps, events) ==
    IF reasoning_steps = <<>> THEN [emitted_steps |-> emitted_steps, events |-> events]
    ELSE LET step_content == Head(reasoning_steps).content
         IN IF step_key(langgraph_node, step_content) \notin emitted_steps
            THEN emit_steps(langgraph_node, Tail(reasoning_steps),
                            emitted_steps \cup {step_key(langgraph_node, step_content)},
                            Append(events, [type |-> "step", step |-> step_type(langgraph_node),
                                            content |-> step_content]))
            ELSE emit_steps(langgraph_node, Tail(reasoning_steps), emitted_steps, events)

\* The handling of a node's on_chain_end event, whose output is the dict the
\* node returned.
on_chain_end(langgraph_node, output, emitted_steps) ==
    emit_steps(langgraph_node, output.reasoning_steps, emitted_steps, <<>>)

\* The handling of the on_chat_model_stream events of one model call; chunks
\* are the contents of the AIMessageChunks.
on_chat_model_stream(langgraph_node, chunks) ==
    IF langgraph_node # "direct" /\ langgraph_node # "generate" THEN <<>>
    ELSE [i \in 1..Len(chunks) |-> [type |-> "answer_chunk", content |-> chunks[i]]]

(* ---------------------------------------------------------------------- *)
(* chat.py: stream_chat                                                    *)
(* ---------------------------------------------------------------------- *)
\* json.dumps(event): an injective encoding of the event dict.
json_dumps(event) == [json |-> event]

\* f"data: {json.dumps(event)}\n\n"
sse(event) == <<"data: ", json_dumps(event), "\n\n">>

DONE == <<"data: [DONE]">>

\* What stream_chat yields for the events agent_stream_query yields while
\* one node runs; finished tells that the event stream ends with them.
stream_chat(events, finished) ==
    [i \in 1..Len(events) |-> sse(events[i])] \o (IF finished THEN <<DONE>> ELSE <<>>)

\* Variant: the exception is not caught, nothing is yielded for it.
stream_chat_except_reraise(message) == <<>>

\* The except branch: what stream_chat yields when the workflow raised an
\* exception e with str(e) = message.
stream_chat_except(message) ==
    LET error_event == [type |-> "error", content |-> message]
    IN <<sse(error_event)>>

(* ---------------------------------------------------------------------- *)
(* The indexer: change_detector.py, pipeline.py and the tables of          *)
(* indexer/src/vector_db.py.  A file path and a document id are texts; the *)
(* content of a file is a version number, its SHA-256 digest the pair      *)
(* <<"sha256", version>> (different contents, different digests).  The    *)
(* store is the record [document_chunks (a set of rows), indexing_history  *)
(* (file path -> content_hash), file_actions (the rows in insert order)].  *)
(* ---------------------------------------------------------------------- *)
LastIndex(text, ch) ==
    LET at == {i \in 1..Len(text) : text[i] = ch}
    IN IF at = {} THEN 0 ELSE CHOOSE i \in at : \A j \in at : j <= i

\* Path(md_file).with_suffix("").as_posix(): the path without the suffix of
\* its last component.
get_doc_id(md_file) ==
    LET slash == LastIndex(md_file, "/")
        dot == LastIndex(md_file, ".")
    IN IF dot > slash + 1 /\ dot < Len(md_file) THEN SubSeq(md_file, 1, dot - 1) ELSE md_file

\* hashlib.sha256(f.read()).hexdigest() of the file's content on disk
calculate_file_hash(disk, md_file) == <<"sha256", disk[md_file]>>

\* str.replace(old, new) for one-character old and new
replace(text, old, new) == [i \in 1..Len(text) |-> IF text[i] = old THEN new ELSE text[i]]

\* f"{n:03d}": the decimal digits of n, padded with zeros to three places
RECURSIVE decimal(_)
decimal(n) == IF n < 10 THEN <<Digits[n + 1]>> ELSE Append(decimal(n \div 10), Digits[(n % 10) + 1])

format_03d(n) ==
    LET digits == decimal(n)
    IN [i \in 1..(IF Len(digits) < 3 THEN 3 - Len(digits) ELSE 0) |-> "0"] \o digits

\* f"{document.doc_id.replace('/', '_')}_chunk_{chunk_index:03d}"
Chunk_id(doc_id, chunk_index) ==
    replace(doc_id, "/", "_") \o <<"_", "c", "h", "u", "n", "k", "_">> \o format_03d(chunk_index)

EmptyStore ==
    [document_chunks |-> {}, indexing_history |-> [f \in {} |-> <<>>], file_actions |-> <<>>]

\* The methods of the VectorDB object detect_changes works with.
VectorDB_get_indexed_files(db) == DOMAIN db.indexing_history

VectorDB_get_indexing_history(db, file_path) ==
    IF file_path \in DOMAIN db.indexing_history
    THEN [content_hash |-> db.indexing_history[file_path]]
    ELSE [content_hash |-> None]

\* Variant of detect_changes: a file with a history record counts as modified
\* whatever its digest.
detect_changes_any_digest(current_files, db, disk) ==
    LET indexed_files == VectorDB_get_indexed_files(db)
    IN [added |-> current_files \ indexed_files,
        modified |-> current_files \cap indexed_files,
        deleted |-> indexed_files \ current_files]

\* detect_changes: [added, modified, deleted]
detect_changes(current_files, db, disk) ==
    LET indexed_files == VectorDB_get_indexed_files(db)
        history(md_file) == VectorDB_get_indexing_history(db, md_file)
        no_history(md_file) == history(md_file).content_hash = None
    IN [added |-> {md_file \in current_files :
                      md_file \notin indexed_files \/ no_history(md_file)},
        modified |-> {md_file \in current_files :
                         /\ md_file \in indexed_files
                         /\ ~no_history(md_file)
                         /\ history(md_file).content_hash # calculate_file_hash(disk, md_file)},
        deleted |-> indexed_files \ current_files]

\* delete_chunks: DELETE FROM rag.document_chunks WHERE doc_id = %s
delete_chunks(db, doc_id) ==
    [db EXCEPT !.document_chunks = {row \in db.document_chunks : row.doc_id # doc_id}]

\* insert_chunks: INSERT ... ON CONFLICT (chunk_id) DO NOTHING, chunk by chunk
RECURSIVE insert_rows(_, _)
insert_rows(rows, chunks) ==
    IF chunks = <<>> THEN rows
    ELSE insert_rows(IF \E row \in rows : row.chunk_id = Head(chunks).id
                     THEN rows
                     ELSE rows \cup {[chunk_id |-> Head(chunks).id, doc_id |-> Head(chunks).doc_id,
                                      chunk_index |-> Head(chunks).chunk_index,
                                      text |-> Head(chunks).text]},
                     Tail(chunks))

insert_chunks(db, chunks) ==
    [db EXCEPT !.document_chunks = insert_rows(db.document_chunks, chunks)]

\* update_indexing_history: INSERT ... ON CONFLICT (file_path) DO UPDATE
update_indexing_history(db, file_path, content_hash) ==
    [db EXCEPT !.indexing_history =
        [f \in DOMAIN db.indexing_history \cup {file_path} |->
            IF f = file_path THEN content_hash ELSE db.indexing_history[f]]]

\* delete_indexing_history: DELETE FROM rag.indexing_history WHERE file_path = %s
delete_indexing_history(db, file_path) ==
    [db EXCEPT !.indexing_history =
        [f \in DOMAIN db.indexing_history \ {file_path} |-> db.indexing_history[f]]]

\* log_file_action: INSERT INTO rag.file_actions
log_file_action(db, file_path, action_type, content_hash) ==
    [db EXCEPT !.file_actions =
        Append(db.file_actions, [file_path |-> file_path, action_type |-> action_type,
                                 content_hash |-> content_hash])]

\* chunk_document(load_document(doc_id)) in a pipeline run: the document of
\* content version n yields n chunks, numbered from 0.
Chunked(doc_id, content) ==
    [i \in 1..content |-> [id |-> Chunk_id(doc_id, i - 1), doc_id |-> doc_id,
                           chunk_index |-> i - 1, text |-> <<"text", content, i - 1>>]]

(* ---------------------------------------------------------------------- *)
(* The chunker: indexer/src/chunker.py.  A document's text is a sequence  *)
(* of one-character strings; "U+4E2D" stands for one character of the     *)
(* range U+4E00..U+9FFF and "U+3002" for the ideographic full stop.  The *)
(* regular expressions are computed position by position, greedy          *)
(* quantifiers and their backtracking included.  Positions named as in    *)
(* the code count from 0; indexes of the sequences count from 1.          *)
(* ---------------------------------------------------------------------- *)
Chinese == {"U+4E2D"}
IsChinese(ch) == ch \in Chinese
IsLetter(ch) == ch \in Range(LowerCase) \cup Range(UpperCase)

Least(S) == CHOOSE i \in S : \A j \in S : i <= j
Greatest(S) == CHOOSE i \in S : \A j \in S : j <= i

\* text[a:b] of Python, for 0 <= a
slice(text, a, b) == SubSeq(text, a + 1, IF b < Len(text) THEN b ELSE Len(text))

\* The number of consecutive characters of chars from index p on.
RunLength(text, p, chars) ==
    LET stops == {i \in p..Len(text) : text[i] \notin chars}
    IN (IF stops = {} THEN (IF p > Len(text) THEN p ELSE Len(text) + 1) ELSE Least(stops)) - p

\* The index of the last character of the line that holds index p.
LineEnd(text, p) ==
    LET newlines == {i \in p..Len(text) : text[i] = "\n"}
    IN IF newlines = {} THEN Len(text) ELSE Least(newlines) - 1

\* count_words: the matches of [U+4E00-U+9FFF] plus the matches of [a-zA-Z]+
count_words(text) ==
    LET chinese_chars == Cardinality({i \in 1..Len(text) : IsChinese(text[i])})
        english_words == Cardinality({i \in 1..Len(text) :
                                         IsLetter(text[i]) /\ (i = 1 \/ ~IsLetter(text[i - 1]))})
    IN chinese_chars + english_words

\* HEADING_PATTERN = ^(#{1,6})\s+(.+?)$ with re.MULTILINE, tried at index p:
\* one to six "#" at the start of a line, then \s+ (which also takes
\* newlines) as long as it can be while a character other than a newline
\* follows it, then the rest of that character's line.
HEADING_PATTERN_match(text, p) ==
    LET hashes == RunLength(text, p, {"#"})
        spaces == RunLength(text, p + hashes, Whitespace)
        taken == {k \in 1..spaces :
                     p + hashes + k <= Len(text) /\ text[p + hashes + k] # "\n"}
    IN IF (p = 1 \/ text[p - 1] = "\n") /\ hashes \in 1..6 /\ taken # {}
       THEN LET from == p + hashes + Greatest(taken)
            IN [matched |-> TRUE, start |-> p - 1, end |-> LineEnd(text, from),
                group1 |-> SubSeq(text, p, p + hashes - 1),
                group2 |-> SubSeq(text, from, LineEnd(text, from))]
       ELSE [matched |-> FALSE, start |-> p - 1, end |-> p - 1, group1 |-> <<>>, group2 |-> <<>>]

\* HEADING_PATTERN.finditer(text), scanning from index p
RECURSIVE HEADING_PATTERN_finditer(_, _)
HEADING_PATTERN_finditer(text, p) ==
    IF p > Len(text) THEN <<>>
    ELSE IF HEADING_PATTERN_match(text, p).matched
         THEN <<HEADING_PATTERN_match(text, p)>>
                  \o HEADING_PATTERN_finditer(text, HEADING_PATTERN_match(text, p).end + 1)
         ELSE HEADING_PATTERN_finditer(text, p + 1)

\* _extract_headings: the (position, level, heading_text) of every match
_extract_headings(text) ==
    LET matches == HEADING_PATTERN_finditer(text, 1)
    IN [i \in 1..Len(matches) |->
           [position |-> matches[i].start, level |-> Len(matches[i].group1),
            heading_text |-> strip(matches[i].group2)]]

\* while breadcrumb_stack and breadcrumb_stack[-1][0] >= level: pop()
RECURSIVE pop_breadcrumbs(_, _)
pop_breadcrumbs(breadcrumb_stack, level) ==
    IF breadcrumb_stack # <<>> /\ breadcrumb_stack[Len(breadcrumb_stack)].level >= level
    THEN pop_breadcrumbs(SubSeq(breadcrumb_stack, 1, Len(breadcrumb_stack) - 1), level)
    ELSE breadcrumb_stack

\* The loop of _split_into_sections from heading i on.
RECURSIVE sections_from(_, _, _, _)
sections_from(text, headings, i, breadcrumb_stack) ==
    IF i > Len(headings) THEN <<>>
    ELSE LET start_pos == headings[i].position
             end_pos == IF i + 1 <= Len(headings) THEN headings[i + 1].position ELSE Len(text)
             content == strip(slice(text, start_pos, end_pos))
             stack == Append(pop_breadcrumbs(breadcrumb_stack, headings[i].level),
                             [level |-> headings[i].level, text |-> headings[i].heading_text])
         IN <<[heading |-> headings[i].heading_text, level |-> headings[i].level,
               content |-> content,
               breadcrumb |-> [j \in 1..Len(stack) |-> stack[j].text]]>>
                \o sections_from(text, headings, i + 1, stack)

_split_into_sections(text) ==
    LET headings == _extract_headings(text)
    IN IF headings = <<>>
       THEN <<[heading |-> None, level |-> 0, content |-> text, breadcrumb |-> <<>>]>>
       ELSE sections_from(text, headings, 1, <<>>)

\* PARAGRAPH_SPLIT_PATTERN = \n\s*\n; split(text): the piece that starts at
\* index from, scanned from index p.  A match starts at a newline and ends
\* at the last newline of the whitespace that follows it.
RECURSIVE PARAGRAPH_SPLIT_PATTERN_split(_, _, _)
PARAGRAPH_SPLIT_PATTERN_split(text, from, p) ==
    IF p > Len(text) THEN <<SubSeq(text, from, Len(text))>>
    ELSE LET spaces == RunLength(text, p + 1, Whitespace)
             ends == {j \in (p + 1)..(p + spaces) : text[j] = "\n"}
         IN IF text[p] = "\n" /\ ends # {}
            THEN <<SubSeq(text, from, p - 1)>>
                     \o PARAGRAPH_SPLIT_PATTERN_split(text, Greatest(ends) + 1, Greatest(ends) + 1)
            ELSE PARAGRAPH_SPLIT_PATTERN_split(text, from, p + 1)

\* _split_by_paragraphs: [p.strip() for p in paragraphs if p.strip()]
RECURSIVE stripped_nonempty(_)
stripped_nonempty(paragraphs) ==
    IF paragraphs = <<>> THEN <<>>
    ELSE (IF strip(Head(paragraphs)) # <<>> THEN <<strip(Head(paragraphs))>> ELSE <<>>)
             \o stripped_nonempty(Tail(paragraphs))

_split_by_paragraphs(text) == stripped_nonempty(PARAGRAPH_SPLIT_PATTERN_split(text, 1, 1))

\* str.rfind(sub): the highest position where sub starts, or -1
rfind(text, sub) ==
    LET at == {i \in 0..(Len(text) - Len(sub)) : SubSeq(text, i + 1, i + Len(sub)) = sub}
    IN IF at = {} THEN -1 ELSE Greatest(at)

break_chars ==
    <<<<"U+3002">>, <<"U+FF01">>, <<"U+FF1F">>, <<"U+FF1B">>,
      <<".">>, <<"!">>, <<"?">>, <<";">>, <<"\n", "\n">>>>

\* The (len(text), len(tokens), num_words) with len(text) <= 80,
\* len(tokens) <= 24 and num_words <= 3 for which the double-precision
\* len(text) * (1 - num_words / len(tokens)) lies just below the whole
\* number the exact product is, so that int() yields one less.
ROUNDS_BELOW == {<<33, 11, 2>>, <<39, 13, 3>>, <<65, 13, 3>>,
                 <<66, 11, 2>>, <<77, 11, 2>>, <<78, 13, 3>>}

\* int(len(text) * (1 - num_words / len(tokens))) for num_words < len(tokens)
int_start_pos(length, num_words, tokens) ==
    ((length * (tokens - num_words)) \div tokens)
        - (IF <<length, tokens, num_words>> \in ROUNDS_BELOW THEN 1 ELSE 0)

\* _extract_last_words.  TOKEN_PATTERN's matches that are a Chinese
\* character or a run of letters are the matches count_words counts.
_extract_last_words(text, num_words) ==
    IF num_words <= 0 THEN <<>>
    ELSE LET tokens == count_words(text)
         IN IF tokens <= num_words THEN text
            ELSE LET start_pos == int_start_pos(Len(text), num_words, tokens)
                     low == IF start_pos - 50 > 0 THEN start_pos - 50 ELSE 0
                     search_text == slice(text, low, start_pos + 50)
                     found == {i \in 1..Len(break_chars) : rfind(search_text, break_chars[i]) # -1}
                     best_pos == IF found = {} THEN start_pos
                                 ELSE low + rfind(search_text, break_chars[Least(found)]) + 1
                 IN strip(slice(text, best_pos, Len(text)))

\* sep.join(parts)
RECURSIVE join(_, _)
join(sep, parts) ==
    IF parts = <<>> THEN <<>>
    ELSE IF Len(parts) = 1 THEN parts[1]
    ELSE parts[1] \o sep \o join(sep, Tail(parts))

chunk_data(chunk_text, section, doc_id) ==
    [text |-> chunk_text, heading |-> section.heading, breadcrumb |-> section.breadcrumb,
     doc_id |-> doc_id]

\* The loop of _chunk_section over the paragraphs, and the final flush.
RECURSIVE for_para(_, _, _, _, _, _, _, _)
for_para(paragraphs, section, doc_id, chunks, current_chunk, current_size, target_chunk_size, overlap_size) ==
    IF paragraphs = <<>>
    THEN IF current_chunk # <<>>
         THEN Append(chunks, chunk_data(join(<<"\n", "\n">>, current_chunk), section, doc_id))
         ELSE chunks
    ELSE LET para == Head(paragraphs)
             para_size == count_words(para)
         IN IF current_size + para_size > target_chunk_size /\ current_chunk # <<>>
            THEN LET chunk_text == join(<<"\n", "\n">>, current_chunk)
                     overlap_text == _extract_last_words(chunk_text, overlap_size)
                 IN for_para(Tail(paragraphs), section, doc_id,
                             Append(chunks, chunk_data(chunk_text, section, doc_id)),
                             IF overlap_text # <<>> THEN <<overlap_text, para>> ELSE <<para>>,
                             IF overlap_text # <<>> THEN count_words(overlap_text) + para_size
                             ELSE para_size,
                             target_chunk_size, overlap_size)
            ELSE for_para(Tail(paragraphs), section, doc_id, chunks,
                          Append(current_chunk, para), current_size + para_size,
                          target_chunk_size, overlap_size)

_chunk_section(section, doc_id, previous_overlap, target_chunk_size, max_chunk_size, overlap_size) ==
    LET content == section.content
        word_count == count_words(content)
        overlap_text == previous_overlap
    IN IF word_count <= max_chunk_size
       THEN <<chunk_data(IF overlap_text # <<>>
                         THEN strip(overlap_text \o <<"\n", "\n">> \o content)
                         ELSE content,
                         section, doc_id)>>
       ELSE for_para(_split_by_paragraphs(content), section, doc_id, <<>>,
                     IF overlap_text # <<>> THEN <<overlap_text>> ELSE <<>>,
                     IF overlap_text # <<>> THEN count_words(overlap_text) ELSE 0,
                     target_chunk_size, overlap_size)

\* Variant of the body of the loop over section_chunks: a fragment below
\* the minimum size is not emitted, yet it takes a sequence number.
for_chunk_data_counting_dropped(acc, data, doc_id, min_chunk_size) ==
    LET word_count == count_words(data.text)
    IN IF word_count >= min_chunk_size
       THEN [all_chunks |-> Append(acc.all_chunks,
                                   [id |-> Chunk_id(doc_id, acc.chunk_index), doc_id |-> doc_id,
                                    chunk_index |-> acc.chunk_index, heading |-> data.heading,
                                    text |-> data.text, word_count |-> word_count]),
             chunk_index |-> acc.chunk_index + 1]
       ELSE [all_chunks |-> acc.all_chunks, chunk_index |-> acc.chunk_index + 1]

\* The body of the loop over section_chunks in chunk_document; acc holds
\* all_chunks and chunk_index.
for_chunk_data(acc, data, doc_id, min_chunk_size) ==
    LET word_count == count_words(data.text)
    IN IF word_count >= min_chunk_size
       THEN [all_chunks |-> Append(acc.all_chunks,
                                   [id |-> Chunk_id(doc_id, acc.chunk_index), doc_id |-> doc_id,
                                    chunk_index |-> acc.chunk_index, heading |-> data.heading,
                                    text |-> data.text, word_count |-> word_count]),
             chunk_index |-> acc.chunk_index + 1]
       ELSE acc

RECURSIVE for_section_chunks(_, _, _, _)
for_section_chunks(acc, section_chunks, doc_id, min_chunk_size) ==
    IF section_chunks = <<>> THEN acc
    ELSE for_section_chunks(for_chunk_data(acc, Head(section_chunks), doc_id, min_chunk_size),
                            Tail(section_chunks), doc_id, min_chunk_size)

\* The loop of chunk_document over the sections.
RECURSIVE for_section(_, _, _, _, _, _, _, _)
for_section(sections, doc_id, acc, previous_overlap, target_chunk_size, max_chunk_size, min_chunk_size, overlap_size) ==
    IF sections = <<>> THEN acc.all_chunks
    ELSE LET section_chunks == _chunk_section(Head(sections), doc_id, previous_overlap,
                                              target_chunk_size, max_chunk_size, overlap_size)
         IN for_section(Tail(sections), doc_id,
                        for_section_chunks(acc, section_chunks, doc_id, min_chunk_size),
                        IF section_chunks # <<>>
                        THEN _extract_last_words(section_chunks[Len(section_chunks)].text,
                                                 overlap_size)
                        ELSE previous_overlap,
                        target_chunk_size, max_chunk_size, min_chunk_size, overlap_size)

chunk_document(document, target_chunk_size, max_chunk_size, min_chunk_size, overlap_size) ==
    for_section(_split_into_sections(document.text), document.doc_id,
                [all_chunks |-> <<>>, chunk_index |-> 0], <<>>,
                target_chunk_size, max_chunk_size, min_chunk_size, overlap_size)

(* ---------------------------------------------------------------------- *)
(* Embeddings: indexer/src/embeddings.py.  tiktoken's encoding is the      *)
(* byte-level one: a token per character, no merges.  The embeddings       *)
(* endpoint returns one vector per input, in input order; the vector of a  *)
(* text is a function of the text, and a float is the fraction <<n, d>>    *)
(* in lowest terms, so that an average is the exact one.                   *)
(* ---------------------------------------------------------------------- *)
EmbeddingChars == <<"a", "b">>
EmbeddingTokens == <<64, 65>>

\* encoding.encode(text)
encode(text) ==
    [i \in 1..Len(text) |-> EmbeddingTokens[CHOOSE c \in 1..Len(EmbeddingChars) : EmbeddingChars[c] = text[i]]]

\* encoding.decode(tokens)
decode(tokens) ==
    [i \in 1..Len(tokens) |-> EmbeddingChars[CHOOSE c \in 1..Len(EmbeddingTokens) : EmbeddingTokens[c] = tokens[i]]]

RECURSIVE Gcd(_, _)
Gcd(a, b) == IF b = 0 THEN a ELSE Gcd(b, a % b)

\* The fraction n / d (n >= 0, d > 0) in lowest terms.
Frac(n, d) == <<n \div Gcd(n, d), d \div Gcd(n, d)>>

AddFrac(x, y) == Frac(x[1] * y[2] + y[1] * x[2], x[2] * y[2])

\* sum(vals) / len(vals)
RECURSIVE sum(_)
sum(vals) == IF vals = <<>> THEN <<0, 1>> ELSE AddFrac(Head(vals), sum(Tail(vals)))

average(vals) == Frac(sum(vals)[1], sum(vals)[2] * Len(vals))

\* The vector the embeddings endpoint returns for a text: its length and
\* the number of its "a".
Embedding(text) ==
    <<<<Len(text), 1>>, <<Cardinality({i \in 1..Len(text) : text[i] = "a"}), 1>>>>

\* _generate_batch when the endpoint answers: [item.embedding for item in response.data]
_generate_batch(texts) == [i \in 1..Len(texts) |-> Embedding(texts[i])]

\* _split_by_tokens: for i in range(0, len(tokens), chunk_size)
_split_by_tokens(text, tokens, max_tokens) ==
    LET chunk_size == max_tokens - TOKEN_BUFFER
    IN [j \in 1..((Len(tokens) + chunk_size - 1) \div chunk_size) |->
           decode(SubSeq(tokens, (j - 1) * chunk_size + 1,
                         IF j * chunk_size < Len(tokens) THEN j * chunk_size ELSE Len(tokens)))]

\* _validate_and_split_texts from the text of index idx on
RECURSIVE validate_from(_, _)
validate_from(texts, idx) ==
    IF idx >= Len(texts) THEN [validated_texts |-> <<>>, original_indices |-> <<>>]
    ELSE LET text == texts[idx + 1]
             tokens == encode(text)
             rest == validate_from(texts, idx + 1)
             split_texts == IF Len(tokens) <= MAX_TOKENS_PER_INPUT THEN <<text>>
                            ELSE _split_by_tokens(text, tokens, MAX_TOKENS_PER_INPUT)
         IN [validated_texts |-> split_texts \o rest.validated_texts,
             original_indices |-> [k \in 1..Len(split_texts) |-> idx] \o rest.original_indices]

_validate_and_split_texts(texts) == validate_from(texts, 0)

\* grouped[idx] of _merge_split_embeddings: the embeddings zipped with the
\* original index idx, in order
RECURSIVE grouped(_, _, _, _)
grouped(embeddings, original_indices, idx, k) ==
    IF k > Len(embeddings) \/ k > Len(original_indices) THEN <<>>
    ELSE (IF original_indices[k] = idx THEN <<embeddings[k]>> ELSE <<>>)
             \o grouped(embeddings, original_indices, idx, k + 1)

\* Variant of _merge_split_embeddings: the embeddings are returned as they
\* are, split or not.
_merge_split_embeddings_as_is(embeddings, original_indices, num_original) == embeddings

\* _merge_split_embeddings; a group of several vectors is averaged
\* component by component (zip(*embs) stops at the shortest vector).
_merge_split_embeddings(embeddings, original_indices, num_original) ==
    IF Len(embeddings) = num_original THEN embeddings
    ELSE [n \in 1..num_original |->
             LET embs == grouped(embeddings, original_indices, n - 1, 1)
                 shortest == Least({Len(embs[e]) : e \in 1..Len(embs)})
             IN IF Len(embs) = 1 THEN embs[1]
                ELSE [c \in 1..shortest |-> average([e \in 1..Len(embs) |-> embs[e][c]])]]

(* ---------------------------------------------------------------------- *)
(* Citation labels: _get_episode_name of agent/src/graph.py.  A character  *)
(* outside ASCII is written by its code point.                             *)
(* ---------------------------------------------------------------------- *)
\* str.startswith(prefix)
startswith(text, prefix) ==
    Len(prefix) <= Len(text) /\ SubSeq(text, 1, Len(prefix)) = prefix

\* str.replace(old, new) for a text old: the occurrences of old, found from
\* left to right without overlap, give way to new
RECURSIVE str_replace(_, _, _)
str_replace(text, old, new) ==
    IF text = <<>> THEN <<>>
    ELSE IF startswith(text, old)
         THEN new \o str_replace(SubSeq(text, Len(old) + 1, Len(text)), old, new)
         ELSE <<Head(text)>> \o str_replace(Tail(text), old, new)

LIVESTREAM == <<"l", "i", "v", "e", "s", "t", "r", "e", "a", "m", "/">>
EPISODE_TYPES ==
    <<[prefix |-> <<"m", "a", "i", "n", "/">>, name |-> <<"U+7761", "U+524D", "U+6D88", "U+606F">>],
      [prefix |-> <<"r", "e", "f", "e", "r", "e", "n", "c", "e", "/">>, name |-> <<"U+53C2", "U+8003", "U+4FE1", "U+606F">>],
      [prefix |-> <<"o", "p", "i", "n", "i", "o", "n", "/">>, name |-> <<"U+9AD8", "U+89C1">>],
      [prefix |-> <<"d", "a", "i", "l", "y", "/">>, name |-> <<"U+6BCF", "U+65E5", "U+65B0", "U+95FB">>],
      [prefix |-> <<"c", "o", "m", "m", "e", "r", "c", "i", "a", "l", "/">>, name |-> <<"U+8BB2", "U+70B9", "U+9ED1", "U+8BDD">>],
      [prefix |-> <<"b", "u", "s", "i", "n", "e", "s", "s", "/">>, name |-> <<"U+4EA7", "U+7ECF", "U+7834", "U+58C1", "U+673A">>]>>
LIVESTREAM_NAME == <<"U+76F4", "U+64AD", "U+95EE", "U+7B54", "U+8BB0", "U+5F55">>
FALLBACK_NAME == <<"U+6587", "U+6863">>

\* Variant of _get_episode_name: a livestream id is labelled like the
\* others, by its last segment.
_get_episode_name_last_segment(doc_id) ==
    LET parts == split(doc_id, "/")
        episode_num == str_replace(parts[Len(parts)], <<".", "m", "d">>, <<>>)
        types == {t \in 1..Len(EPISODE_TYPES) : startswith(doc_id, EPISODE_TYPES[t].prefix)}
    IN IF startswith(doc_id, LIVESTREAM) THEN LIVESTREAM_NAME \o episode_num
       ELSE IF types # {} THEN EPISODE_TYPES[Least(types)].name \o episode_num
       ELSE FALLBACK_NAME \o episode_num

\* _get_episode_name: the if/elif chain takes the first prefix that matches
_get_episode_name(doc_id) ==
    LET parts == split(doc_id, "/")
        episode_num == str_replace(parts[Len(parts)], <<".", "m", "d">>, <<>>)
        types == {t \in 1..Len(EPISODE_TYPES) : startswith(doc_id, EPISODE_TYPES[t].prefix)}
    IN IF startswith(doc_id, LIVESTREAM)
       THEN LIVESTREAM_NAME \o SubSeq(doc_id, Len(LIVESTREAM) + 1, Len(doc_id))
       ELSE IF types # {} THEN EPISODE_TYPES[Least(types)].name \o episode_num
       ELSE FALLBACK_NAME \o episode_num

\* f"[[{episode_name}]](https://archive.bedtime.news/{doc_id}.md)"
ARCHIVE_URL == <<"https://archive.bedtime.news/">>
citation_of(doc_id) ==
    <<"[", "[">> \o _get_episode_name(doc_id) \o <<"]", "]", "(">> \o ARCHIVE_URL \o doc_id
        \o <<".", "m", "d", ")">>

(* ---------------------------------------------------------------------- *)
(* Inputs of a run                                                         *)
(* ---------------------------------------------------------------------- *)
Questions == {<<"q", "?">>}

\* response.content of the routing call
RouteOutputs ==
    {RAG, <<"r", "a", "g">>, <<" ", "R", "a", "g", "\n">>,
     GREETING, <<"g", "r", "e", "e", "t", "i", "n", "g", " ">>,
     <<"R", "A", "G", ".">>, <<"R", "A", "G", " ", "?">>, <<"G", "R", "E", "E", "T", "I", "N", "G", "!">>,
     <<"M", "A", "Y", "B", "E">>, <<>>, NonText}

\* response.content of the rewrite call
RewriteOutputs ==
    {<<"a">>, <<" ", "b", " ", "\n", "\n", "a", "\n">>,
     <<"a", "\n", "a", "\n", "a", "\n", "a">>, <<>>, NonText}

\* Similarity scores at or above the match threshold, in hundredths.
Similarities == {40, 80}

\* The rows of a similarity table
Rows == {[chunk_id |-> c, doc_id |-> ChunkDocId(c), similarity |-> v] :
            c \in 1..NumChunks, v \in Similarities}

\* The similarity tables of a workflow run: one row per chunk id (DISTINCT ON
\* chunk_id), at most MaxResults chunks at or above the threshold.
Tables ==
    {t \in SUBSET Rows :
        /\ Cardinality(t) <= MaxResults
        /\ \A r \in t : \A o \in t : r.chunk_id = o.chunk_id => r = o}

\* Searches that return
SearchOutcomes == {Found(t) : t \in Tables}

\* response.content of the grading call
GradeOutputs ==
    {NONE, <<" ", "N", "o", "n", "e", "\n">>, ALL, <<"a", "l", "l">>,
     <<"N", "O", "N", "E", ".">>, <<"A", "L", "L", "!">>,
     <<"N", "/", "A">>, <<>>, NonText,
     <<"1">>, <<"2", ",", " ", "1">>, <<"2", ",", "2">>, <<"1", ",", "9">>,
     <<"D", "o", "c", " ", "2">>}

\* Further grading responses for the grading specification: more samples, and
\* every text over the alphabet up to MaxGradeLen.
MoreGradeOutputs ==
    {<<"n", "o", "n", "e">>, <<"A", "L", "L", " ">>, <<"y", "e", "s">>,
     <<"1", ",", " ", "3">>, <<"3", ",", "1">>, <<"1", ",", "2", ",", "3">>,
     <<"2", ",", "4">>, <<"4", ",", "2", ",", "4">>, <<"0">>, <<"0", "2">>, <<"1", "2">>,
     <<"2", ".">>, <<"5", ",", "6">>}
GradeAlphabet == {"1", "2", "3", ","}
GeneratedGradeOutputs == UNION {[1..n -> GradeAlphabet] : n \in 1..MaxGradeLen}

\* The queries of the list that the retriever has no cached response for.
Uncached(queries, cache) ==
    {q \in Range(queries) :
        hash_query(q, MatchThreshold, MATCH_COUNT) \notin DOMAIN cache.cache}

\* response.content of the generate and the direct call
AnswerOutputs == {<<"o", "k">>, <<>>, NonText}

\* No language-model call was made by the node (yet).
NoCall == <<"<no call>">>

\* str(e) of an exception raised by a model call
Messages == {"model call failed"}

\* No exception has been raised.
NotRaised == [node |-> "", message |-> ""]

\* No call of retriever.retrieve has been made from outside the graph.
NotRetrieved ==
    [request |-> RetrieveRequest(<<>>),
     returned |-> [raised |-> FALSE, response |-> RetrieveResponse(RetrieveRequest(<<>>), <<>>),
                   embedded |-> FALSE, searched |-> FALSE]]

(* ---------------------------------------------------------------------- *)
(* The run of the compiled graph, observed by stream_chat                  *)
(* ---------------------------------------------------------------------- *)
VARIABLES
    state,          \* the AgentState of the run
    pc,             \* the node that runs next, END, or RAISED
    result_cache,   \* retriever._result_cache
    emitted_steps,  \* the set emitted_steps of agent_stream_query
    yielded,        \* the items stream_chat has yielded so far
    visits,         \* history: the nodes that have completed, in order
    llm,            \* history: the latest model call, [node, content]
    calls,          \* history: per run of the retrieve node, the queries passed to retriever.retrieve
    raised,         \* history: the node that raised and the exception's message
    retrieved,      \* history: the latest call of retriever.retrieve from outside the graph
    cache_calls,    \* history: the get and put calls made on result_cache directly, in order
    threads,        \* per thread calling the cache: its position in get or put, and its locals
    disk,           \* indexer: the markdown files of the content directory, path -> content
    store,          \* indexer: the tables document_chunks, indexing_history and file_actions
    runs,           \* indexer: the pipeline runs started so far, each with its position and locals
    service,        \* indexer: the position of the entrypoint, and its --run-immediately flag
    retrying,       \* a call of a function wrapped in a retry decorator: attempts made, outcome
    pool,           \* the connection pool, and the database operation that is using a connection
    chunked,        \* a call of chunk_document: its arguments and the chunks it returned
    embedding,      \* a call of generate_embeddings: its position, its locals and its result
    citation        \* a call of _get_episode_name: its argument and what it returned

\* The variables of a workflow run other than the cache, and the variables of
\* the other components.
agent_vars == <<state, pc, emitted_steps, yielded, visits, llm, calls, raised, retrieved>>

indexer_vars == <<disk, store, runs, service>>

library_vars == <<retrying, pool, chunked, embedding, citation>>

other_vars == <<cache_calls, threads, indexer_vars, library_vars>>

vars == <<state, pc, result_cache, emitted_steps, yielded, visits, llm, calls, raised, retrieved,
          cache_calls, threads, disk, store, runs, service, retrying, pool, chunked,
          embedding, citation>>

Nodes == {"route", "query_rewrite", "retrieve", "grade", "generate", "direct"}

RAISED == "RAISED"

\* The other components before any of their operations has run.
IndexerIdle ==
    /\ disk = [f \in {} |-> 0]
    /\ store = EmptyStore
    /\ runs = <<>>
    /\ service = [pc |-> "main", run_immediately |-> FALSE]

NoAttempt == [func |-> "", policy |-> "", attempt |-> 0, calls |-> <<>>, status |-> "", result |-> None]

NoConnections ==
    [used |-> {}, created |-> 0, pc |-> "idle", conn |-> 0, exc_type |-> "", paths |-> <<>>,
     committed |-> <<>>, raised |-> <<>>]

NotChunked == [called |-> FALSE]

NotEmbedding == [pc |-> "idle"]

NotCited == [called |-> FALSE]

LibraryIdle ==
    /\ retrying = NoAttempt
    /\ pool = NoConnections
    /\ chunked = NotChunked
    /\ embedding = NotEmbedding
    /\ citation = NotCited

OthersIdle ==
    /\ cache_calls = <<>>
    /\ threads = <<>>
    /\ IndexerIdle
    /\ LibraryIdle

\* No workflow run has started.
AgentIdle ==
    /\ state = create_initial_state(CHOOSE question \in Questions : TRUE)
    /\ pc = "route"
    /\ emitted_steps = {}
    /\ yielded = <<>>
    /\ visits = <<>>
    /\ llm = [node |-> "", content |-> NoCall]
    /\ calls = <<>>
    /\ raised = NotRaised
    /\ retrieved = NotRetrieved

Init ==
    /\ OthersIdle
    /\ \E question \in Questions : state = create_initial_state(question)
    /\ pc = "route"
    /\ result_cache = LRUCache_init(CACHE_CAPACITY)
    /\ emitted_steps = {}
    /\ yielded = <<>>
    /\ visits = <<>>
    /\ llm = [node |-> "", content |-> NoCall]
    /\ calls = <<>>
    /\ raised = NotRaised
    /\ retrieved = NotRetrieved

\* A node has returned `out` after its model call streamed `chunks`: the
\* engine writes the update and follows the edge, agent_stream_query handles
\* the node's events and stream_chat yields what it yields.
Visit(node, out, chunks) ==
    LET new == apply_update(state, out)
        steps == on_chain_end(node, out, emitted_steps)
    IN /\ state' = new
       /\ pc' = next_node(node, new)
       /\ emitted_steps' = steps.emitted_steps
       /\ yielded' = yielded \o stream_chat(on_chat_model_stream(node, chunks) \o steps.events,
                                            next_node(node, new) = END)
       /\ visits' = Append(visits, node)
       /\ UNCHANGED <<raised, retrieved>>
       /\ UNCHANGED other_vars

\* A node has raised an exception with str(e) = message: the run is over and
\* stream_chat's except branch runs.
Raise(node, message) ==
    /\ pc' = RAISED
    /\ yielded' = yielded \o stream_chat_except(message)
    /\ raised' = [node |-> node, message |-> message]
    /\ UNCHANGED <<state, emitted_steps, visits, retrieved>>
    /\ UNCHANGED other_vars

Route ==
    /\ pc = "route"
    /\ \E content \in RouteOutputs :
        /\ Visit("route", _route_node(state, content), <<content>>)
        /\ llm' = [node |-> "route", content |-> content]
    /\ UNCHANGED <<result_cache, calls>>

QueryRewrite ==
    /\ pc = "query_rewrite"
    /\ state.iteration_count < IterCap
    /\ \E content \in RewriteOutputs :
        /\ Visit("query_rewrite", _query_rewrite_node(state, content), <<content>>)
        /\ llm' = [node |-> "query_rewrite", content |-> content]
    /\ UNCHANGED <<result_cache, calls>>

\* The retrieve node, with the outcomes of the searches of the queries that
\* are not cached drawn from `outcomes`.
RetrieveStep(outcomes) ==
    /\ pc = "retrieve"
    /\ \E db \in [Uncached(state.rewritten_queries, result_cache) -> outcomes] :
        LET done == _retrieve_node(state, result_cache, db)
        IN /\ IF done.raised
              THEN Raise("retrieve", done.message)
              ELSE Visit("retrieve", done.out, <<>>)
           /\ result_cache' = done.cache
           /\ calls' = Append(calls, done.calls)
    /\ UNCHANGED llm

Retrieve == RetrieveStep(SearchOutcomes)

\* The grade node makes its model call only when there are documents.
GradeStep(outputs) ==
    /\ pc = "grade"
    /\ \E content \in (IF state.documents = <<>> THEN {NoCall} ELSE outputs) :
        /\ Visit("grade", _documents_grade_node(state, content),
                 IF content = NoCall THEN <<>> ELSE <<content>>)
        /\ llm' = [node |-> "grade", content |-> content]
    /\ UNCHANGED <<result_cache, calls>>

Grade == GradeStep(GradeOutputs)

Generate ==
    /\ pc = "generate"
    /\ \E content \in AnswerOutputs :
        /\ Visit("generate", _answer_generate_node(state, content), <<content>>)
        /\ llm' = [node |-> "generate", content |-> content]
    /\ UNCHANGED <<result_cache, calls>>

Direct ==
    /\ pc = "direct"
    /\ \E content \in AnswerOutputs :
        /\ Visit("direct", _direct_answer_node(state, content), <<content>>)
        /\ llm' = [node |-> "direct", content |-> content]
    /\ UNCHANGED <<result_cache, calls>>

Next == Route \/ QueryRewrite \/ Retrieve \/ Grade \/ Generate \/ Direct

Spec == Init /\ [][Next]_vars

\* Next can take a step exactly in these states (ENABLED <<Next>>_vars: every
\* node accepts every state, and each visit extends the history).
NextEnabled ==
    /\ pc \in Nodes
    /\ pc = "query_rewrite" => state.iteration_count < IterCap

\* Every node call returns: weak fairness of Next, WF_vars(Next), written out
\* as []<>~ENABLED <<Next>>_vars \/ []<><<Next>>_vars with NextEnabled for the
\* enabling condition.  WF_vars(Direct) follows from it (while pc = "direct"
\* the only step Next can take is Direct) and is stated for the node that
\* ends a run without retrieval.
FairSpec ==
    /\ Spec
    /\ WF_vars(Direct)
    /\ ([]<>(~NextEnabled) \/ []<><<Next>>_vars)

(* ---------------------------------------------------------------------- *)
(* The streaming run in which node calls may raise: the model call of a    *)
(* node, or the embedding or the search of a retrieval.                    *)
(* ---------------------------------------------------------------------- *)
\* The model call of the node that runs next raises.
ModelCallRaises ==
    /\ pc \in Nodes \ {"retrieve"}
    /\ pc = "grade" => state.documents # <<>>
    /\ pc = "query_rewrite" => state.iteration_count < IterCap
    /\ \E message \in Messages : Raise(pc, message)
    /\ UNCHANGED <<result_cache, llm, calls>>

RetrieveOrRaise == RetrieveStep(SearchOutcomes \cup {EmbeddingRaises, SearchRaises})

ChatNext ==
    Route \/ QueryRewrite \/ RetrieveOrRaise \/ Grade \/ Generate \/ Direct \/ ModelCallRaises

ChatSpec == Init /\ [][ChatNext]_vars

(* ---------------------------------------------------------------------- *)
(* The grade step on its own, over longer candidate lists: the run has     *)
(* been routed to RAG, rewritten to one query, and the search returned the *)
(* first n chunks of the store.                                            *)
(* ---------------------------------------------------------------------- *)
FirstChunks(n) ==
    {[chunk_id |-> i, doc_id |-> ChunkDocId(i), similarity |-> 80] : i \in 1..n}

\* The start of a run up to a node: route has answered RAG, query_rewrite
\* has returned `content`, and, for node = "grade", retrieve has searched `db`.
\* Each node's result is bound once, in the order the graph runs the nodes.
InitBefore(node, content, db) ==
    \E s0 \in {create_initial_state(CHOOSE question \in Questions : TRUE)} :
    \E o1 \in {_route_node(s0, RAG)} :
    \E s1 \in {apply_update(s0, o1)} :
    \E e1 \in {on_chain_end("route", o1, {})} :
    \E o2 \in {_query_rewrite_node(s1, content)} :
    \E s2 \in {apply_update(s1, o2)} :
    \E e2 \in {on_chain_end("query_rewrite", o2, e1.emitted_steps)} :
        /\ OthersIdle
        /\ llm = [node |-> "query_rewrite", content |-> content]
        /\ raised = NotRaised
        /\ retrieved = NotRetrieved
        /\ IF node = "retrieve"
           THEN /\ state = s2
                /\ pc = "retrieve"
                /\ result_cache = LRUCache_init(CACHE_CAPACITY)
                /\ emitted_steps = e2.emitted_steps
                /\ yielded = stream_chat(e1.events \o e2.events, FALSE)
                /\ visits = <<"route", "query_rewrite">>
                /\ calls = <<>>
           ELSE \E done \in {_retrieve_node(s2, LRUCache_init(CACHE_CAPACITY), db)} :
                \E e3 \in {on_chain_end("retrieve", done.out, e2.emitted_steps)} :
                    /\ state = apply_update(s2, done.out)
                    /\ pc = "grade"
                    /\ result_cache = done.cache
                    /\ emitted_steps = e3.emitted_steps
                    /\ yielded = stream_chat(e1.events \o e2.events \o e3.events, FALSE)
                    /\ visits = <<"route", "query_rewrite", "retrieve">>
                    /\ calls = <<done.calls>>

GradeInit ==
    \E n \in 0..MaxGradeDocs :
        InitBefore("grade", <<"a">>, [q \in {<<"a">>} |-> Found(FirstChunks(n))])

GradeAny == GradeStep(GradeOutputs \cup MoreGradeOutputs \cup GeneratedGradeOutputs)

GradeSpec == GradeInit /\ [][GradeAny]_vars

(* ---------------------------------------------------------------------- *)
(* The retrieve step on its own, over result lists long enough for the     *)
(* top-30 cut: the run has been routed to RAG and rewritten to up to three *)
(* queries; each search returns a block of consecutive chunk ids, the      *)
(* first `high` of them with the higher similarity.                        *)
(* ---------------------------------------------------------------------- *)
Block(start, n, high) ==
    {[chunk_id |-> start + i, doc_id |-> ChunkDocId(start + i),
      similarity |-> IF i <= high THEN 80 ELSE 40] : i \in 1..n}

MergeOutcomes ==
    {Found(Block(start, n, high)) :
        start \in {0, MergeStride, 2 * MergeStride},
        n \in {0, MergeLen},
        high \in {0, MergeLen \div 2, MergeLen}}

\* Rewrite outputs of zero to three queries, with and without a repeated query.
MergeRewriteOutputs ==
    {<<>>, <<"a">>, <<"a", "\n", "b">>, <<"a", "\n", "b", "\n", "c">>,
     <<"a", "\n", "a">>, <<"a", "\n", "b", "\n", "a">>}

MergeInit ==
    \E content \in MergeRewriteOutputs :
        InitBefore("retrieve", content, [q \in {} |-> Found({})])

RetrieveMerge == RetrieveStep(MergeOutcomes)

MergeSpec == MergeInit /\ [][RetrieveMerge]_vars

(* ---------------------------------------------------------------------- *)
(* The retriever on its own: calls of retriever.retrieve with requests of  *)
(* any shape, one after the other, on the process's cache.                 *)
(* ---------------------------------------------------------------------- *)
\* The request of the retrieve node for query "a", and requests that differ
\* from it in one field.
Requests ==
    LET base == RetrieveRequest(<<"a">>)
    IN {base,
        [base EXCEPT !.include_text = FALSE],
        [base EXCEPT !.include_heading = FALSE],
        [base EXCEPT !.doc_id_filter = <<"main/1">>],
        [base EXCEPT !.match_threshold = 70],
        [base EXCEPT !.match_count = 1],
        [base EXCEPT !.query = <<"b">>]}

\* Similarity tables of a store of two chunks, one per document, with
\* similarities below, at and above the thresholds of the requests.
RetrieverTables ==
    {{[chunk_id |-> 1, doc_id |-> ChunkDocId(1), similarity |-> s[1]],
      [chunk_id |-> 2, doc_id |-> ChunkDocId(2), similarity |-> s[2]]} :
        s \in {<<80, 40>>, <<40, 80>>, <<20, 80>>}}

RetrieverOutcomes == {Found(t) : t \in RetrieverTables} \cup {EmbeddingRaises, SearchRaises}

RetrieveCall ==
    /\ result_cache._access_counter < MaxCalls
    /\ \E request \in Requests : \E outcome \in RetrieverOutcomes :
        LET returned == retrieve(result_cache, request, [q \in {request.query} |-> outcome])
        IN /\ result_cache' = returned.cache
           /\ retrieved' = [request |-> request,
                            returned |-> [raised |-> returned.raised, response |-> returned.response,
                                          embedded |-> returned.embedded, searched |-> returned.searched]]
    /\ UNCHANGED <<state, pc, emitted_steps, yielded, visits, llm, calls, raised>>
    /\ UNCHANGED other_vars

RetrieverSpec == Init /\ [][RetrieveCall]_vars

(* ---------------------------------------------------------------------- *)
(* The cache on its own: an LRUCache of capacity 1..MaxCapacity and get    *)
(* and put calls on it, one after the other.  Each put stores a value not  *)
(* stored before.                                                          *)
(* ---------------------------------------------------------------------- *)
CacheKeys == {<<"k", i>> : i \in 1..(MaxCapacity + 1)}

CacheInit ==
    /\ AgentIdle
    /\ OthersIdle
    /\ \E capacity \in 1..MaxCapacity : result_cache = LRUCache_init(capacity)

CacheGet ==
    /\ Len(cache_calls) < MaxCacheCalls
    /\ \E key \in CacheKeys :
        \E got \in {LRUCache_get(result_cache, key)} :
            /\ result_cache' = got.self
            /\ cache_calls' = Append(cache_calls, [op |-> "get", key |-> key,
                                                   hit |-> got.hit, value |-> got.value])
    /\ UNCHANGED <<agent_vars, threads, indexer_vars, library_vars>>

CachePut ==
    /\ Len(cache_calls) < MaxCacheCalls
    /\ \E key \in CacheKeys :
        \E value \in {<<"v", Len(cache_calls) + 1>>} :
            /\ result_cache' = LRUCache_put(result_cache, key, value)
            /\ cache_calls' = Append(cache_calls, [op |-> "put", key |-> key,
                                                   hit |-> TRUE, value |-> value])
    /\ UNCHANGED <<agent_vars, threads, indexer_vars, library_vars>>

CacheNext == CacheGet \/ CachePut

CacheSpec == CacheInit /\ [][CacheNext]_vars

(* ---------------------------------------------------------------------- *)
(* Two queries on the shared cache.  The streamed workflow runs its nodes  *)
(* on worker threads, so the retrieve nodes of two requests call get and   *)
(* put of the one LRUCache of the retriever with their statements          *)
(* interleaved; the class takes no lock.  One step of a thread is one      *)
(* statement of get, put or _evict_lru, with `self._access_counter += 1`   *)
(* as its load and its store; `min(...)` is taken as one step.             *)
(* ---------------------------------------------------------------------- *)
Threads == 1..2

\* A thread between two cache calls.
Idle(ops) ==
    [pc |-> "idle", op |-> "", key |-> <<>>, value |-> None, loaded |-> 0, lru_key |-> <<>>,
     full |-> FALSE, evicted |-> 0, returned |-> None, ops |-> ops]

RaceInit ==
    /\ AgentIdle
    /\ cache_calls = <<>>
    /\ \E capacity \in 1..MaxCapacity : result_cache = LRUCache_init(capacity)
    /\ threads = [t \in Threads |-> Idle(0)]
    /\ IndexerIdle
    /\ LibraryIdle

\* The thread's statement has run: its record is `next`.
Ran(t, next) == threads' = [threads EXCEPT ![t] = next]

\* The thread's call has returned or raised.
Ended(t, pc_, returned) ==
    /\ Ran(t, [threads[t] EXCEPT !.pc = pc_, !.returned = returned])
    /\ cache_calls' = Append(cache_calls, [thread |-> t, op |-> threads[t].op, key |-> threads[t].key,
                                           value |-> threads[t].value, returned |-> returned,
                                           raised |-> pc_ = "raised", full |-> threads[t].full,
                                           evicted |-> threads[t].evicted])

\* A query calls get(key) or put(key, value).
Call(t) ==
    /\ threads[t].pc \in {"idle", "returned"}
    /\ threads[t].ops < MaxThreadOps
    /\ \E key \in CacheKeys : \E op \in {"get", "put"} :
        Ran(t, [Idle(threads[t].ops + 1) EXCEPT
                   !.pc = IF op = "get" THEN "get:test" ELSE "put:load",
                   !.op = op, !.key = key,
                   !.value = IF op = "put" THEN <<"v", t, threads[t].ops + 1>> ELSE None])
    /\ UNCHANGED <<result_cache, cache_calls>>

\* LRUCache.get, statement by statement.
get_step(t) ==
    LET self == result_cache
        my == threads[t]
    IN CASE my.pc = "get:test" ->          \* if key in self.cache: ... return None
              /\ IF my.key \in DOMAIN self.cache
                 THEN Ran(t, [my EXCEPT !.pc = "get:read"]) /\ UNCHANGED cache_calls
                 ELSE Ended(t, "returned", None)
              /\ UNCHANGED result_cache
         [] my.pc = "get:read" ->          \* value, _ = self.cache[key]
              /\ IF my.key \in DOMAIN self.cache
                 THEN Ran(t, [my EXCEPT !.pc = "get:load", !.value = self.cache[my.key][1]])
                      /\ UNCHANGED cache_calls
                 ELSE Ended(t, "raised", None)
              /\ UNCHANGED result_cache
         [] my.pc = "get:load" ->          \* self._access_counter += 1 (load)
              /\ Ran(t, [my EXCEPT !.pc = "get:add", !.loaded = self._access_counter])
              /\ UNCHANGED <<result_cache, cache_calls>>
         [] my.pc = "get:add" ->           \* self._access_counter += 1 (store)
              /\ Ran(t, [my EXCEPT !.pc = "get:store"])
              /\ result_cache' = [self EXCEPT !._access_counter = my.loaded + 1]
              /\ UNCHANGED cache_calls
         [] my.pc = "get:store" ->         \* self.cache[key] = (value, self._access_counter); return value
              /\ result_cache' = [self EXCEPT !.cache =
                     [k \in DOMAIN self.cache \cup {my.key} |->
                         IF k = my.key THEN <<my.value, self._access_counter>> ELSE self.cache[k]]]
              /\ Ended(t, "returned", my.value)
         [] OTHER -> FALSE

\* LRUCache._evict_lru called from put, statement by statement.
_evict_lru_step(t) ==
    LET self == result_cache
        my == threads[t]
    IN CASE my.pc = "evict:empty" ->       \* if not self.cache: return
              /\ Ran(t, [my EXCEPT !.pc = IF DOMAIN self.cache = {} THEN "put:store" ELSE "evict:min"])
              /\ UNCHANGED <<result_cache, cache_calls>>
         [] my.pc = "evict:min" ->         \* lru_key = min(self.cache, key=...)
              /\ IF DOMAIN self.cache = {}
                 THEN Ended(t, "raised", None)
                 ELSE /\ Ran(t, [my EXCEPT !.pc = "evict:del",
                                  !.lru_key = CHOOSE k \in DOMAIN self.cache :
                                      \A j \in DOMAIN self.cache :
                                          self.cache[k][2] <= self.cache[j][2]])
                      /\ UNCHANGED cache_calls
              /\ UNCHANGED result_cache
         [] my.pc = "evict:del" ->         \* del self.cache[lru_key]
              IF my.lru_key \in DOMAIN self.cache
              THEN /\ result_cache' = [self EXCEPT !.cache =
                           [k \in DOMAIN self.cache \ {my.lru_key} |-> self.cache[k]]]
                   /\ Ran(t, [my EXCEPT !.pc = "put:store", !.evicted = my.evicted + 1])
                   /\ UNCHANGED cache_calls
              ELSE Ended(t, "raised", None) /\ UNCHANGED result_cache
         [] OTHER -> FALSE

\* LRUCache.put, statement by statement.
put_step(t) ==
    LET self == result_cache
        my == threads[t]
    IN CASE my.pc = "put:load" ->          \* self._access_counter += 1 (load)
              /\ Ran(t, [my EXCEPT !.pc = "put:add", !.loaded = self._access_counter])
              /\ UNCHANGED <<result_cache, cache_calls>>
         [] my.pc = "put:add" ->           \* self._access_counter += 1 (store)
              /\ Ran(t, [my EXCEPT !.pc = "put:test"])
              /\ result_cache' = [self EXCEPT !._access_counter = my.loaded + 1]
              /\ UNCHANGED cache_calls
         [] my.pc = "put:test" ->          \* if key in self.cache:
              /\ Ran(t, [my EXCEPT !.pc = IF my.key \in DOMAIN self.cache
                                          THEN "put:store" ELSE "put:full"])
              /\ UNCHANGED <<result_cache, cache_calls>>
         [] my.pc = "put:full" ->          \* if len(self.cache) >= self.capacity:
              /\ IF LRUCache_size(self) >= self.capacity
                 THEN Ran(t, [my EXCEPT !.pc = "evict:empty", !.full = TRUE])
                 ELSE Ran(t, [my EXCEPT !.pc = "put:store"])
              /\ UNCHANGED <<result_cache, cache_calls>>
         [] my.pc = "put:store" ->         \* self.cache[key] = (value, self._access_counter)
              /\ result_cache' = [self EXCEPT !.cache =
                     [k \in DOMAIN self.cache \cup {my.key} |->
                         IF k = my.key THEN <<my.value, self._access_counter>> ELSE self.cache[k]]]
              /\ Ended(t, "returned", None)
         [] OTHER -> FALSE

RaceNext ==
    \E t \in Threads :
        /\ (Call(t) \/ get_step(t) \/ put_step(t) \/ _evict_lru_step(t))
        /\ UNCHANGED <<agent_vars, indexer_vars, library_vars>>

RaceSpec == RaceInit /\ [][RaceNext]_vars

(* ---------------------------------------------------------------------- *)
(* The indexer service: the entrypoint, the cron job it installs and the   *)
(* pipeline runs.  Every run is a process of its own (the entrypoint's     *)
(* immediate run, or `python -m src.pipeline` started by cron); all of     *)
(* them work on the one database.  Each database function opens its own    *)
(* connection and commits on return, so one step of a run is one such      *)
(* call; a call that raises has written nothing.                           *)
(* ---------------------------------------------------------------------- *)
IndexerFiles == {<<"x", ".", "m", "d">>, <<"d", "/", "y", ".", "m", "d">>}

\* The content directories sync_repository can leave behind.
Disks == UNION {[present -> 1..MaxContent] : present \in SUBSET IndexerFiles}

\* A run that has just been started.
NewRun ==
    [pc |-> "detect", added |-> {}, modified |-> {}, deleted |-> {},
     md_file |-> <<>>, action |-> "", content_hash |-> <<>>, chunks |-> <<>>,
     detected |-> [current_files |-> {}, indexing_history |-> [f \in {} |-> <<>>],
                   disk |-> [f \in {} |-> 0], changes |-> [added |-> {}, modified |-> {}, deleted |-> {}]],
     written |-> <<>>, processed |-> <<>>]

InProgress(run) == run.pc \notin {"complete", "failed"}

IndexerInit ==
    /\ AgentIdle
    /\ cache_calls = <<>>
    /\ threads = <<>>
    /\ LibraryIdle
    /\ result_cache = LRUCache_init(CACHE_CAPACITY)
    /\ disk \in Disks
    /\ store = EmptyStore
    /\ runs = <<>>
    /\ \E run_immediately \in BOOLEAN : service = [pc |-> "main", run_immediately |-> run_immediately]

\* entrypoint.main: the immediate run, when asked for, runs inside the call.
entrypoint_main ==
    /\ service.pc = "main"
    /\ IF service.run_immediately
       THEN /\ runs' = Append(runs, NewRun)
            /\ service' = [service EXCEPT !.pc = "run_pipeline"]
       ELSE /\ service' = [service EXCEPT !.pc = "schedule_cron"]
            /\ UNCHANGED runs
    /\ UNCHANGED <<disk, store>>

\* run_pipeline() has returned or raised (the exception is logged); the
\* entrypoint goes on to schedule_cron, which installs the cron job.
_setup_cron ==
    /\ service.pc = "run_pipeline"
    /\ ~InProgress(runs[1])
    /\ service' = [service EXCEPT !.pc = "schedule_cron"]
    /\ UNCHANGED <<disk, store, runs>>

\* The cron daemon reaches a scheduled time and starts the crontab entry's
\* command, `python -m src.pipeline`.
start_pipeline(max_runs) ==
    /\ service.pc = "schedule_cron"
    /\ Len(runs) < max_runs
    /\ runs' = Append(runs, NewRun)
    /\ UNCHANGED <<disk, store, service>>

cron_job == start_pipeline(MaxRuns)

Runs(r, next) == runs' = [runs EXCEPT ![r] = next]

\* pipeline.main, phase 1: sync_repository leaves one of `disks` behind, then
\* scan_files and detect_changes.
pipeline_phase1(r, disks) ==
    /\ runs[r].pc = "detect"
    /\ \E synced \in disks :
        \E changes \in {detect_changes(DOMAIN synced, store, synced)} :
            /\ disk' = synced
            /\ Runs(r, [runs[r] EXCEPT
                   !.pc = IF changes.added = {} /\ changes.modified = {} /\ changes.deleted = {}
                          THEN "complete" ELSE "process",
                   !.added = changes.added, !.modified = changes.modified,
                   !.deleted = changes.deleted,
                   !.detected = [current_files |-> DOMAIN synced,
                                 indexing_history |-> store.indexing_history,
                                 disk |-> synced, changes |-> changes]])
    /\ UNCHANGED <<store, service>>

pipeline_main(r) == pipeline_phase1(r, Disks)

\* process_added, process_modified, process_deleted: the loops of phase 2
\* take the next file of the set they iterate over, in any order.
process_next(r) ==
    LET run == runs[r]
        begin(md_file, action, should_delete_chunks) ==
            [run EXCEPT !.pc = IF should_delete_chunks THEN "delete_chunks" ELSE "load",
                        !.md_file = md_file, !.action = action,
                        !.content_hash = <<>>, !.chunks = <<>>, !.written = <<>>]
    IN /\ run.pc = "process"
       /\ IF run.added # {}
          THEN \E md_file \in run.added :
                  Runs(r, [begin(md_file, "ADD", FALSE) EXCEPT !.added = run.added \ {md_file}])
          ELSE IF run.modified # {}
          THEN \E md_file \in run.modified :
                  Runs(r, [begin(md_file, "MODIFY", TRUE) EXCEPT !.modified = run.modified \ {md_file}])
          ELSE IF run.deleted # {}
          THEN \E md_file \in run.deleted :
                  Runs(r, [begin(md_file, "DELETE", TRUE) EXCEPT !.deleted = run.deleted \ {md_file}])
          ELSE Runs(r, [run EXCEPT !.pc = "complete"])
       /\ UNCHANGED <<disk, store, service>>

\* _process_file, call by call.
_process_file(r) ==
    LET run == runs[r]
        doc_id == get_doc_id(run.md_file)
        wrote(pc_, call) == [run EXCEPT !.pc = pc_, !.written = Append(run.written, call)]
    IN CASE run.pc = "delete_chunks" ->    \* delete_chunks(doc_id)
              /\ store' = delete_chunks(store, doc_id)
              /\ Runs(r, wrote(IF run.action = "DELETE" THEN "history" ELSE "load", "delete_chunks"))
              /\ UNCHANGED <<disk, service>>
         [] run.pc = "load" ->             \* calculate_file_hash ... generate_embeddings
              /\ run.md_file \in DOMAIN disk
              /\ Runs(r, [run EXCEPT !.pc = "insert_chunks",
                                     !.content_hash = calculate_file_hash(disk, run.md_file),
                                     !.chunks = Chunked(doc_id, disk[run.md_file])])
              /\ UNCHANGED <<disk, store, service>>
         [] run.pc = "insert_chunks" ->    \* insert_chunks(chunks, embeddings=embeddings)
              /\ store' = insert_chunks(store, run.chunks)
              /\ Runs(r, wrote("history", "insert_chunks"))
              /\ UNCHANGED <<disk, service>>
         [] run.pc = "history" ->          \* delete_indexing_history / update_indexing_history
              /\ store' = IF run.action = "DELETE"
                          THEN delete_indexing_history(store, run.md_file)
                          ELSE update_indexing_history(store, run.md_file, run.content_hash)
              /\ Runs(r, wrote("log_file_action", "history"))
              /\ UNCHANGED <<disk, service>>
         [] run.pc = "log_file_action" ->  \* log_file_action(md_file, action, content_hash); return chunks
              /\ store' = log_file_action(store, run.md_file, run.action, run.content_hash)
              /\ Runs(r, [wrote("process", "log_file_action") EXCEPT
                             !.processed = Append(run.processed, run.md_file)])
              /\ UNCHANGED <<disk, service>>
         [] OTHER -> FALSE

\* The call a run is about to make raises (the repository cannot be synced,
\* the file cannot be read, the embedding service or the database fails for
\* good): the exception leaves _process_file and the loop around it, and
\* main logs it and re-raises.
pipeline_raises(r) ==
    /\ runs[r].pc \in {"detect", "delete_chunks", "load", "insert_chunks", "history", "log_file_action"}
    /\ Runs(r, [runs[r] EXCEPT !.pc = "failed"])
    /\ UNCHANGED <<disk, store, service>>

IndexerNext ==
    /\ \/ entrypoint_main
       \/ _setup_cron
       \/ cron_job
       \/ \E r \in 1..Len(runs) :
              pipeline_main(r) \/ process_next(r) \/ _process_file(r) \/ pipeline_raises(r)
    /\ UNCHANGED <<agent_vars, result_cache, cache_calls, threads, library_vars>>

IndexerSpec == IndexerInit /\ [][IndexerNext]_vars

(* ---------------------------------------------------------------------- *)
(* The indexer over one file and one run more: long enough for a run to    *)
(* start after another has completed while a third is still in progress.   *)
(* ---------------------------------------------------------------------- *)
OneFileDisks == {d \in Disks : DOMAIN d \subseteq {<<"x", ".", "m", "d">>}}

OneFileInit ==
    /\ IndexerInit
    /\ disk \in OneFileDisks

cron_job_again == start_pipeline(MaxRuns + 1)

OneFileNext ==
    /\ \/ entrypoint_main
       \/ _setup_cron
       \/ cron_job_again
       \/ \E r \in 1..Len(runs) :
              pipeline_phase1(r, OneFileDisks) \/ process_next(r) \/ _process_file(r) \/ pipeline_raises(r)
    /\ UNCHANGED <<agent_vars, result_cache, cache_calls, threads, library_vars>>

OneFileSpec == OneFileInit /\ [][OneFileNext]_vars

(* ---------------------------------------------------------------------- *)
(* Change detection on its own: one run's phase 1 over every listing and   *)
(* every indexing history of four files.                                   *)
(* ---------------------------------------------------------------------- *)
DetectFiles == IndexerFiles \cup {<<"z", ".", "m", "d">>, <<"d", "/", "w", ".", "m", "d">>}

DetectDisks == UNION {[present -> 1..MaxContent] : present \in SUBSET DetectFiles}

DetectInit ==
    /\ AgentIdle
    /\ cache_calls = <<>>
    /\ threads = <<>>
    /\ LibraryIdle
    /\ result_cache = LRUCache_init(CACHE_CAPACITY)
    /\ disk = [f \in {} |-> 0]
    /\ \E indexed \in DetectDisks :
          store = [EmptyStore EXCEPT !.indexing_history =
                      [f \in DOMAIN indexed |-> <<"sha256", indexed[f]>>]]
    /\ runs = <<NewRun>>
    /\ service = [pc |-> "schedule_cron", run_immediately |-> FALSE]

DetectChanges ==
    /\ pipeline_phase1(1, DetectDisks)
    /\ UNCHANGED <<agent_vars, result_cache, cache_calls, threads, library_vars>>

DetectSpec == DetectInit /\ [][DetectChanges]_vars

(* ---------------------------------------------------------------------- *)
(* The retry decorators: retry_on_transient_error of the two vector_db     *)
(* modules (every database function is wrapped with the default            *)
(* max_attempts), and tenacity's retry(stop=stop_after_attempt(3)) around   *)
(* the two embedding calls.  An outcome is what one call of the wrapped    *)
(* function does: it returns a value or raises an exception of some class. *)
(* ---------------------------------------------------------------------- *)
TRANSIENT_ERRORS == {"OperationalError", "InterfaceError"}

Returns(value) == [raises |-> "", value |-> value]
Raises(error) == [raises |-> error, value |-> None]

CallOutcomes ==
    {Returns(<<"rows">>), Returns(<<>>), Raises("OperationalError"), Raises("InterfaceError"),
     Raises("ValueError"), Raises("ProgrammingError")}

\* Variant of the wrapper's loop body: a transient error is never re-raised.
retry_on_transient_error_no_raise(max_attempts, attempt, outcome) ==
    IF outcome.raises = ""
    THEN [status |-> "returned", attempt |-> attempt, result |-> outcome.value]
    ELSE IF outcome.raises \in TRANSIENT_ERRORS
    THEN [status |-> "running", attempt |-> attempt + 1, result |-> None]
    ELSE [status |-> "raised", attempt |-> attempt, result |-> <<outcome.raises>>]

\* The body of `for attempt in range(max_attempts)` in wrapper, for one
\* outcome of func(*args, **kwargs).
retry_on_transient_error(max_attempts, attempt, outcome) ==
    IF outcome.raises = ""
    THEN [status |-> "returned", attempt |-> attempt, result |-> outcome.value]
    ELSE IF outcome.raises \in TRANSIENT_ERRORS /\ attempt < max_attempts - 1
    THEN [status |-> "running", attempt |-> attempt + 1, result |-> None]
    ELSE [status |-> "raised", attempt |-> attempt, result |-> <<outcome.raises>>]

\* tenacity's retry with stop_after_attempt(stop) and the default
\* retry-on-any-exception, for the outcome of attempt number attempt_number:
\* when the stop condition holds it raises RetryError from the exception.
stop_after_attempt(stop, attempt_number, outcome) ==
    IF outcome.raises = ""
    THEN [status |-> "returned", attempt |-> attempt_number, result |-> outcome.value]
    ELSE IF attempt_number >= stop
    THEN [status |-> "raised", attempt |-> attempt_number, result |-> <<"RetryError", outcome.raises>>]
    ELSE [status |-> "running", attempt |-> attempt_number + 1, result |-> None]

\* The wrapped functions the claims name, with the first value of the
\* attempt counter of their decorator.
Wrapped ==
    {[func |-> "search_similar_chunks", policy |-> "retry_on_transient_error", attempt |-> 0],
     [func |-> "update_indexing_history", policy |-> "retry_on_transient_error", attempt |-> 0],
     [func |-> "_generate_embedding", policy |-> "stop_after_attempt", attempt |-> 1],
     [func |-> "_generate_batch", policy |-> "stop_after_attempt", attempt |-> 1]}

RetryInit ==
    /\ AgentIdle
    /\ cache_calls = <<>>
    /\ threads = <<>>
    /\ IndexerIdle
    /\ result_cache = LRUCache_init(CACHE_CAPACITY)
    /\ pool = NoConnections
    /\ chunked = NotChunked
    /\ embedding = NotEmbedding
    /\ citation = NotCited
    /\ \E wrapped \in Wrapped :
          retrying = [func |-> wrapped.func, policy |-> wrapped.policy, attempt |-> wrapped.attempt,
                      calls |-> <<>>, status |-> "running", result |-> None]

Attempted(outcome, next) ==
    retrying' = [retrying EXCEPT !.attempt = next.attempt, !.status = next.status,
                                 !.result = next.result, !.calls = Append(retrying.calls, outcome)]

\* One pass of the loop of retry_on_transient_error's wrapper.
wrapper ==
    /\ retrying.policy = "retry_on_transient_error"
    /\ retrying.status = "running"
    /\ retrying.attempt < MAX_ATTEMPTS
    /\ \E outcome \in CallOutcomes :
          Attempted(outcome, retry_on_transient_error(MAX_ATTEMPTS, retrying.attempt, outcome))

\* One attempt of a function decorated with tenacity's retry.
tenacity_retry ==
    /\ retrying.policy = "stop_after_attempt"
    /\ retrying.status = "running"
    /\ \E outcome \in CallOutcomes :
          Attempted(outcome, stop_after_attempt(STOP_AFTER_ATTEMPT, retrying.attempt, outcome))

RetryNext ==
    /\ (wrapper \/ tenacity_retry)
    /\ UNCHANGED <<agent_vars, result_cache, cache_calls, threads, indexer_vars, pool, chunked,
                   embedding, citation>>

RetrySpec == RetryInit /\ [][RetryNext]_vars

(* ---------------------------------------------------------------------- *)
(* The connection pool and the context manager _Connection (the same code  *)
(* in agent/src/vector_db.py and indexer/src/vector_db.py).  A database    *)
(* function runs `with _Connection() as conn: <body>`, one at a time here. *)
(* pool.used is the set of connections the pool has handed out with        *)
(* getconn() and not got back with putconn().                              *)
(* ---------------------------------------------------------------------- *)
PoolInit ==
    /\ AgentIdle
    /\ cache_calls = <<>>
    /\ threads = <<>>
    /\ IndexerIdle
    /\ result_cache = LRUCache_init(CACHE_CAPACITY)
    /\ retrying = NoAttempt
    /\ chunked = NotChunked
    /\ embedding = NotEmbedding
    /\ citation = NotCited
    /\ pool = NoConnections

\* The operation has left the `with` statement by `path`; `committed` says
\* whether commit() was called and returned, `raised` whether the statement
\* (and with it the database function) raises instead of returning.
Left(path, used, has_committed, has_raised) ==
    pool' = [pool EXCEPT !.pc = "idle", !.conn = 0, !.exc_type = "", !.used = used,
                         !.paths = Append(pool.paths, path),
                         !.committed = Append(pool.committed, has_committed),
                         !.raised = Append(pool.raised, has_raised)]

\* _Connection.__init__: getconn() hands out a connection, or raises.
Connection_init ==
    /\ pool.pc = "idle"
    /\ Len(pool.paths) < MaxOperations
    /\ \/ \E conn \in {CHOOSE c \in 1..(MaxOperations + 1) : c \notin pool.used} :
             pool' = [pool EXCEPT !.pc = "enter", !.conn = conn, !.used = pool.used \cup {conn},
                                  !.created = IF conn > pool.created THEN conn ELSE pool.created]
       \/ Left("getconn raised", pool.used, FALSE, TRUE)

\* _Connection.__enter__: the cursor is created, or self._conn.cursor raises;
\* the exception of __enter__ leaves the `with` statement without a call of
\* __exit__.
Connection_enter ==
    /\ pool.pc = "enter"
    /\ \/ pool' = [pool EXCEPT !.pc = "body"]
       \/ Left("cursor raised", pool.used, FALSE, TRUE)

\* The body of the `with` statement returns or raises.
with_body ==
    /\ pool.pc = "body"
    /\ \E exc_type \in {"", "Exception"} : pool' = [pool EXCEPT !.pc = "exit", !.exc_type = exc_type]

\* _Connection.__exit__(exc_type): rollback or commit, close the cursor,
\* putconn; `raises` names the call of the try block that raises (none: "").
\* The except branch logs the error and closes the connection.  __exit__
\* returns None on every path, so the `with` statement raises exactly when
\* its body raised.
_Connection_exit(exc_type, raises) ==
    [path |-> IF raises # "" THEN raises
              ELSE IF exc_type # "" THEN "rolled back" ELSE "committed",
     used |-> IF raises # "" THEN pool.used ELSE pool.used \ {pool.conn},
     committed |-> exc_type = "" /\ raises # "commit raised",
     raised |-> exc_type # ""]

Connection_exit ==
    /\ pool.pc = "exit"
    /\ \E raises \in {"", IF pool.exc_type # "" THEN "rollback raised" ELSE "commit raised",
                       "cursor.close raised"} :
        \E left \in {_Connection_exit(pool.exc_type, raises)} :
            Left(left.path, left.used, left.committed, left.raised)

PoolNext ==
    /\ (Connection_init \/ Connection_enter \/ with_body \/ Connection_exit)
    /\ UNCHANGED <<agent_vars, result_cache, cache_calls, threads, indexer_vars, retrying, chunked,
                   embedding, citation>>

PoolSpec == PoolInit /\ [][PoolNext]_vars

(* ---------------------------------------------------------------------- *)
(* Chunking: chunk_document applied to two documents of one archive, and   *)
(* insert_chunks applied to what it returned, as _process_file does one   *)
(* after the other.  The texts are built of lines: headings, sentences,   *)
(* Chinese characters, blank lines; the sizes are the keyword arguments   *)
(* of chunk_document, scaled down to texts of a few words.                 *)
(* ---------------------------------------------------------------------- *)
ChunkLines ==
    {<<"#", " ", "a", "\n">>, <<"a", " ", "b", ".", "\n">>, <<"U+4E2D", "U+4E2D", "\n">>,
     <<"\n">>, <<"a", "b", " ", "a", " ", "b", "\n">>, <<"#", "#", " ", "\n">>}

RECURSIVE ChunkTexts(_)
ChunkTexts(n) ==
    IF n = 0 THEN {<<>>}
    ELSE ChunkTexts(n - 1) \cup {text \o line : text \in ChunkTexts(n - 1), line \in ChunkLines}

ChunkFiles ==
    {<<"a", "/", "b", ".", "m", "d">>, <<"a", "_", "b", ".", "m", "d">>, <<"c", ".", "m", "d">>}

ChunkSizes ==
    {[target_chunk_size |-> 3, max_chunk_size |-> 5, min_chunk_size |-> 2, overlap_size |-> 1],
     [target_chunk_size |-> 2, max_chunk_size |-> 3, min_chunk_size |-> 2, overlap_size |-> 2],
     [target_chunk_size |-> 2, max_chunk_size |-> 4, min_chunk_size |-> 1, overlap_size |-> 0]}

ChunkInit ==
    /\ AgentIdle
    /\ cache_calls = <<>>
    /\ threads = <<>>
    /\ IndexerIdle
    /\ result_cache = LRUCache_init(CACHE_CAPACITY)
    /\ retrying = NoAttempt
    /\ pool = NoConnections
    /\ embedding = NotEmbedding
    /\ citation = NotCited
    /\ \E first \in ChunkFiles, second \in ChunkFiles, text \in ChunkTexts(MaxLines),
          sizes \in ChunkSizes :
          /\ first # second
          /\ chunked = [called |-> FALSE, sizes |-> sizes,
                        documents |-> <<[doc_id |-> get_doc_id(first), text |-> text],
                                        [doc_id |-> get_doc_id(second),
                                         text |-> <<"#", " ", "a", "\n", "a", "b", " ", "a", " ",
                                                    "b", "\n">>]>>,
                        chunks |-> <<>>, inserted |-> 0]

\* chunks = chunk_document(document), for the next document
ChunkDocument ==
    /\ Len(chunked.chunks) < Len(chunked.documents)
    /\ chunked.inserted = Len(chunked.chunks)
    /\ \E chunks \in {chunk_document(chunked.documents[Len(chunked.chunks) + 1],
                                     chunked.sizes.target_chunk_size,
                                     chunked.sizes.max_chunk_size,
                                     chunked.sizes.min_chunk_size,
                                     chunked.sizes.overlap_size)} :
          chunked' = [chunked EXCEPT !.called = TRUE, !.chunks = Append(@, chunks)]
    /\ UNCHANGED store

\* insert_chunks(chunks), for the chunks of the last document chunked
InsertChunks ==
    /\ chunked.inserted < Len(chunked.chunks)
    /\ store' = insert_chunks(store, chunked.chunks[Len(chunked.chunks)])
    /\ chunked' = [chunked EXCEPT !.inserted = @ + 1]

ChunkNext ==
    /\ (ChunkDocument \/ InsertChunks)
    /\ UNCHANGED <<agent_vars, result_cache, cache_calls, threads, disk, runs, service,
                   retrying, pool, embedding, citation>>

ChunkSpec == ChunkInit /\ [][ChunkNext]_vars

(* ---------------------------------------------------------------------- *)
(* Embedding a list of texts: generate_embeddings, batch by batch.  The    *)
(* texts are shorter than, as long as, and longer than the token limit.    *)
(* ---------------------------------------------------------------------- *)
EmbeddingText(n) == [i \in 1..n |-> IF i % 3 = 0 THEN "b" ELSE "a"]

\* A short text, the longest text within the limit, the shortest oversized
\* text (two slices), and a text of three slices.
EmbeddingLengths ==
    {2, MAX_TOKENS_PER_INPUT, MAX_TOKENS_PER_INPUT + 1,
     2 * (MAX_TOKENS_PER_INPUT - TOKEN_BUFFER) + 1}

\* No text, one text, two texts.
TextLists ==
    {<<>>} \cup {<<EmbeddingText(length)>> : length \in EmbeddingLengths}
           \cup {<<EmbeddingText(first), EmbeddingText(second)>> :
                     first \in EmbeddingLengths, second \in EmbeddingLengths}

EmbedInit ==
    /\ AgentIdle
    /\ cache_calls = <<>>
    /\ threads = <<>>
    /\ IndexerIdle
    /\ result_cache = LRUCache_init(CACHE_CAPACITY)
    /\ retrying = NoAttempt
    /\ pool = NoConnections
    /\ chunked = NotChunked
    /\ citation = NotCited
    /\ \E texts \in TextLists, batch_size \in 1..MaxBatchSize :
          embedding = [pc |-> "start", texts |-> texts, batch_size |-> batch_size,
                       validated_texts |-> <<>>, original_indices |-> <<>>,
                       all_embeddings |-> <<>>, i |-> 0, result |-> <<>>, raises |-> ""]

\* generate_embeddings up to the loop over the batches
generate_embeddings_start ==
    /\ embedding.pc = "start"
    /\ IF embedding.texts = <<>>
       THEN embedding' = [embedding EXCEPT !.pc = "returned", !.result = <<>>]
       ELSE \E validated \in {_validate_and_split_texts(embedding.texts)} :
               embedding' = [embedding EXCEPT !.pc = "batch",
                                              !.validated_texts = validated.validated_texts,
                                              !.original_indices = validated.original_indices]

\* One round of the loop: the batch is embedded, or _generate_batch raises
\* after its attempts and generate_embeddings raises with it.
generate_embeddings_batch ==
    /\ embedding.pc = "batch"
    /\ embedding.i < Len(embedding.validated_texts)
    /\ \E batch \in {slice(embedding.validated_texts, embedding.i,
                           embedding.i + embedding.batch_size)} :
          \/ embedding' = [embedding EXCEPT !.all_embeddings = @ \o _generate_batch(batch),
                                            !.i = @ + embedding.batch_size]
          \/ embedding' = [embedding EXCEPT !.pc = "raised", !.raises = "RetryError"]

\* After the loop: return _merge_split_embeddings(...); grouped[idx] of an
\* index without embedding raises KeyError.
generate_embeddings_return ==
    /\ embedding.pc = "batch"
    /\ embedding.i >= Len(embedding.validated_texts)
    /\ IF /\ Len(embedding.all_embeddings) # Len(embedding.texts)
          /\ \E n \in 1..Len(embedding.texts) :
                grouped(embedding.all_embeddings, embedding.original_indices, n - 1, 1) = <<>>
       THEN embedding' = [embedding EXCEPT !.pc = "raised", !.raises = "KeyError"]
       ELSE embedding' = [embedding EXCEPT
                              !.pc = "returned",
                              !.result = _merge_split_embeddings(embedding.all_embeddings,
                                                                 embedding.original_indices,
                                                                 Len(embedding.texts))]

EmbedNext ==
    /\ (generate_embeddings_start \/ generate_embeddings_batch \/ generate_embeddings_return)
    /\ UNCHANGED <<agent_vars, result_cache, cache_calls, threads, indexer_vars, retrying, pool,
                   chunked, citation>>

EmbedSpec == EmbedInit /\ [][EmbedNext]_vars

(* ---------------------------------------------------------------------- *)
(* Labelling: _get_episode_name applied to the doc_id of a chunk's         *)
(* metadata, as the generate node does for every document.                 *)
(* ---------------------------------------------------------------------- *)
CitePrefixes ==
    {<<"m", "a", "i", "n">>, <<"r", "e", "f", "e", "r", "e", "n", "c", "e">>, <<"o", "p", "i", "n", "i", "o", "n">>, <<"d", "a", "i", "l", "y">>, <<"c", "o", "m", "m", "e", "r", "c", "i", "a", "l">>, <<"b", "u", "s", "i", "n", "e", "s", "s">>, <<"l", "i", "v", "e", "s", "t", "r", "e", "a", "m">>, <<"m", "a", "i", "n", "s", "t", "r", "e", "a", "m">>, <<"x">>}

CiteSegments == {<<"5", "0", "1", "-", "6", "0", "0">>, <<"0", "5">>}

CiteLast == {<<"5", "8", "8">>, <<"2", "0">>, <<"7", ".", "m", "d">>, <<"a", ".", "m", "d", "b">>, <<>>}

\* The paths of up to n segments from CiteSegments, each followed by "/".
RECURSIVE CiteMiddles(_)
CiteMiddles(n) ==
    IF n = 0 THEN {<<>>}
    ELSE CiteMiddles(n - 1) \cup
         {middle \o segment \o <<"/">> : middle \in CiteMiddles(n - 1), segment \in CiteSegments}

\* metadata.get("doc_id", "unknown")
CiteDocIds ==
    {<<"u", "n", "k", "n", "o", "w", "n">>}
        \cup CiteLast
        \cup {prefix \o <<"/">> \o middle \o last :
                 prefix \in CitePrefixes, middle \in CiteMiddles(MaxSegments), last \in CiteLast}

CiteInit ==
    /\ AgentIdle
    /\ cache_calls = <<>>
    /\ threads = <<>>
    /\ IndexerIdle
    /\ result_cache = LRUCache_init(CACHE_CAPACITY)
    /\ retrying = NoAttempt
    /\ pool = NoConnections
    /\ chunked = NotChunked
    /\ embedding = NotEmbedding
    /\ \E doc_id \in CiteDocIds :
          citation = [called |-> FALSE, doc_id |-> doc_id, episode_name |-> <<>>,
                      citation |-> <<>>]

\* episode_name = _get_episode_name(doc_id); citation = f"[[...]](...)"
Cite ==
    /\ ~citation.called
    /\ citation' = [citation EXCEPT !.called = TRUE,
                                    !.episode_name = _get_episode_name(citation.doc_id),
                                    !.citation = citation_of(citation.doc_id)]
    /\ UNCHANGED <<agent_vars, result_cache, cache_calls, threads, indexer_vars, retrying, pool,
                   chunked, embedding>>

CiteSpec == CiteInit /\ [][Cite]_vars

(* ---------------------------------------------------------------------- *)
(* Properties                                                              *)
(* ---------------------------------------------------------------------- *)
LastVisit == IF visits = <<>> THEN "" ELSE visits[Len(visits)]

VisitCount(node) == Cardinality({i \in 1..Len(visits) : visits[i] = node})

\* The decision the route node recorded in its trace entry.
RouteDecision == state.reasoning_steps[1].content[2]

\* C1: under fairness (every node call returns) every run, whatever the model
\* outputs and retrieval results, eventually reaches END, and it gets there
\* through generate or direct.
C1_Terminates == <>(pc = END /\ LastVisit \in {"generate", "direct"})

\* A run that went through the grade -> query_rewrite loop and reached END.
C1_Witness ==
    /\ pc = END
    /\ LastVisit = "generate"
    /\ VisitCount("grade") = 2

\* C2: with max_iterations = 2 a run never visits the rewrite node a third
\* time, and a run whose grading left the relevant set empty on every pass
\* (so that it arrives at generate with relevant_documents empty) has visited
\* rewrite exactly 2 times.
C2_TwoRewriteRounds ==
    /\ state.max_iterations = 2
    /\ VisitCount("query_rewrite") <= 2
    /\ (pc \in {"generate", END} /\ state.needs_retrieval /\ state.relevant_documents = <<>>)
          => /\ VisitCount("query_rewrite") = 2
             /\ SubSeq(visits, 1, 7) = <<"route", "query_rewrite", "retrieve", "grade",
                                         "query_rewrite", "retrieve", "grade">>

\* Grading answered NONE over a non-empty candidate list on the last pass and
\* the run stands before generate with nothing relevant.
C2_Witness ==
    /\ pc = "generate"
    /\ state.relevant_documents = <<>>
    /\ state.documents # <<>>
    /\ llm = [node |-> "grade", content |-> NONE]
    /\ VisitCount("query_rewrite") = 2

\* C3: iteration_count never exceeds max_iterations + 1, and when a run on
\* the RAG path has completed, iteration_count equals the number of rewrite
\* visits and lies in 1..max_iterations + 1.
C3_IterationBound ==
    /\ state.iteration_count <= state.max_iterations + 1
    /\ (pc = END /\ state.needs_retrieval)
          => /\ state.iteration_count = VisitCount("query_rewrite")
             /\ 1 <= state.iteration_count
             /\ state.iteration_count <= state.max_iterations + 1

\* A completed RAG run that used both rewrite rounds.
C3_Witness ==
    /\ pc = END
    /\ state.needs_retrieval
    /\ state.iteration_count = 2

\* C4: right after a grade visit the next node is generate when
\* relevant_documents is non-empty, query_rewrite when it is empty and
\* iteration_count < max_iterations, and generate when it is empty and
\* iteration_count >= max_iterations.
C4_DecisionEdge ==
    LastVisit = "grade" =>
        /\ state.relevant_documents # <<>> => pc = "generate"
        /\ (state.relevant_documents = <<>> /\ state.iteration_count < state.max_iterations)
              => pc = "query_rewrite"
        /\ (state.relevant_documents = <<>> /\ state.iteration_count >= state.max_iterations)
              => pc = "generate"

\* The three cases of the edge: generate with documents, retry, and generate
\* with nothing relevant once the iterations are used up.
C4_Witness ==
    /\ LastVisit = "grade"
    /\ pc = "generate"
    /\ state.relevant_documents = <<>>
    /\ state.iteration_count = state.max_iterations

\* A routing output that is neither GREETING nor RAG after trimming and
\* upper-casing, or is not text at all.
AmbiguousRouting(content) ==
    \/ ~isinstance_str(content)
    \/ upper(strip(content)) \notin {GREETING, RAG}

\* C5: after the route node has seen an ambiguous routing output,
\* needs_retrieval is true and the next node is query_rewrite (the RAG path).
C5_AmbiguousDefaultsToRAG ==
    (LastVisit = "route" /\ AmbiguousRouting(llm.content))
        => (state.needs_retrieval /\ pc = "query_rewrite")

\* C6: a run whose route node classified the question as GREETING visits
\* only route and direct, issues no retriever.retrieve call, leaves the
\* retriever's cache untouched, and its final_answer is the direct node's
\* output.
C6_GreetingDirectOnly ==
    (visits # <<>> /\ RouteDecision = GREETING) =>
        /\ visits \in {<<"route">>, <<"route", "direct">>}
        /\ calls = <<>>
        /\ result_cache = LRUCache_init(CACHE_CAPACITY)
        /\ state.documents = <<>>
        /\ pc = END => (llm.node = "direct" /\ state.final_answer = str(llm.content))

\* A completed greeting run with an answer.
C6_Witness ==
    /\ pc = END
    /\ RouteDecision = GREETING
    /\ state.final_answer = <<"o", "k">>

\* A comma-separated list of numbers: every item, trimmed, is a run of digits.
IsNumberList(text) ==
    LET items == split(text, ",")
    IN \A i \in 1..Len(items) :
          /\ strip(items[i]) # <<>>
          /\ \A j \in 1..Len(strip(items[i])) : IsDigit(strip(items[i])[j])

\* A grading response that is neither NONE, ALL nor a list of numbers.
UnparseableGrading(content) ==
    \/ ~isinstance_str(content)
    \/ /\ upper(strip(content)) \notin {NONE, ALL}
       /\ ~IsNumberList(strip(content))

\* C7: after the grade node has seen an unparseable grading response,
\* relevant_documents equals the full candidate list (fail open).
C7_FailOpen ==
    (LastVisit = "grade" /\ llm.node = "grade" /\ llm.content # NoCall
        /\ UnparseableGrading(llm.content))
        => state.relevant_documents = state.documents

\* The positions a well-formed number list names.
ListedPositions(text) ==
    LET items == split(text, ",")
    IN {int(strip(items[i])) : i \in 1..Len(items)}

\* seq is the candidates at the positions of P, once each, in ascending order.
IsSelection(seq, documents, P) ==
    /\ Len(seq) = Cardinality(P)
    /\ \A p \in P : seq[Cardinality({q \in P : q <= p})] = documents[p]

\* C8: after the grade node has seen a well-formed grading response over N
\* candidates: NONE leaves no relevant document, ALL leaves all N in order,
\* and a comma-separated number list leaves exactly the candidates at the
\* listed positions within 1..N, once each, in ascending position order.
C8_WellFormedGrading ==
    (LastVisit = "grade" /\ llm.node = "grade" /\ llm.content # NoCall
        /\ isinstance_str(llm.content)) =>
        LET text == strip(llm.content)
            N == Len(state.documents)
        IN /\ upper(text) = NONE => state.relevant_documents = <<>>
           /\ upper(text) = ALL => state.relevant_documents = state.documents
           /\ IsNumberList(text) =>
                 IsSelection(state.relevant_documents, state.documents,
                             {p \in 1..N : p \in ListedPositions(text)})

\* The response "2,4" over 5 candidates left the documents at positions 2 and 4.
C8_Witness ==
    /\ LastVisit = "grade"
    /\ llm = [node |-> "grade", content |-> <<"2", ",", "4">>]
    /\ Len(state.documents) = 5
    /\ state.relevant_documents = <<state.documents[2], state.documents[4]>>

\* a is a sub-list of b: its elements occur in b, in the same order.
RECURSIVE IsSubList(_, _)
IsSubList(a, b) ==
    IF a = <<>> THEN TRUE
    ELSE IF b = <<>> THEN FALSE
    ELSE IF Head(a) = Head(b) THEN IsSubList(Tail(a), Tail(b))
    ELSE IsSubList(a, Tail(b))

\* C9: in every state of a run relevant_documents is a sub-list of the
\* current documents.
C9_RelevantWithinDocuments == IsSubList(state.relevant_documents, state.documents)

\* The second iteration retrieved and graded documents, after a first
\* iteration that searched with other queries.
C9_Witness ==
    /\ LastVisit = "grade"
    /\ state.iteration_count = 2
    /\ state.relevant_documents # <<>>
    /\ Len(calls) = 2
    /\ calls[1] # calls[2]

\* The characters of a text that are not whitespace, in order.
NonBlank(text) == SelectSeq(text, LAMBDA ch : ch \notin Whitespace)

RECURSIVE Flatten(_)
Flatten(seqs) == IF seqs = <<>> THEN <<>> ELSE Head(seqs) \o Flatten(Tail(seqs))

\* C10: right after a rewrite visit rewritten_queries is exactly the list of
\* queries of that visit's model output (its non-blank lines, trimmed), and
\* right after a retrieve visit the queries searched in that visit are
\* exactly the current rewritten_queries.
C10_QueriesOverwritten ==
    /\ (LastVisit = "query_rewrite" /\ llm.node = "query_rewrite") =>
          /\ state.rewritten_queries = parse_queries(llm.content)
          /\ isinstance_str(llm.content) =>
                NonBlank(Flatten(state.rewritten_queries)) = NonBlank(llm.content)
          /\ ~isinstance_str(llm.content) => state.rewritten_queries = <<>>
          /\ \A i \in 1..Len(state.rewritten_queries) :
                LET q == state.rewritten_queries[i]
                IN q # <<>> /\ strip(q) = q /\ "\n" \notin Range(q)
    /\ LastVisit = "retrieve" => calls[Len(calls)] = state.rewritten_queries

\* The second rewrite round produced one query after a first round that
\* searched with two.
C10_Witness ==
    /\ LastVisit = "query_rewrite"
    /\ state.iteration_count = 2
    /\ Len(calls) = 1
    /\ Len(calls[1]) = 2
    /\ state.rewritten_queries = <<<<"a">>>>

\* The documents the latest run of the retrieve node fetched: the results of
\* its queries, in query order, as the retriever's cache holds them.
RECURSIVE FetchedFor(_)
FetchedFor(queries) ==
    IF queries = <<>> THEN <<>>
    ELSE result_cache.cache[hash_query(Head(queries), MatchThreshold, MATCH_COUNT)][1].results
            \o FetchedFor(Tail(queries))

Fetched == FetchedFor(calls[Len(calls)])

ChunkIds(chunks) == {chunks[i].chunk_id : i \in 1..Len(chunks)}

\* The first copy of a chunk in a list of chunks.
FirstCopy(chunks, chunk_id) ==
    chunks[CHOOSE i \in 1..Len(chunks) :
              /\ chunks[i].chunk_id = chunk_id
              /\ \A j \in 1..(i - 1) : chunks[j].chunk_id # chunk_id]

\* The similarities of the fetched chunks that are not among the documents.
CutOffSimilarities ==
    LET fetched == Fetched
    IN {FirstCopy(fetched, c).similarity : c \in ChunkIds(fetched) \ ChunkIds(state.documents)}

\* C11: right after a visit of the retrieve node documents holds pairwise
\* distinct chunk ids, all of them fetched by this visit, in non-increasing
\* order of similarity; it has min(30, number of distinct fetched ids)
\* entries, and no fetched chunk that was cut off has a higher similarity
\* than a chunk that was kept.
C11_MergedTopThirty ==
    LastVisit = "retrieve" =>
        LET documents == state.documents
            fetched_ids == ChunkIds(Fetched)
            cut_off == CutOffSimilarities
        IN /\ \A i \in 1..Len(documents) : \A j \in 1..Len(documents) :
                 i < j => /\ documents[i].chunk_id # documents[j].chunk_id
                          /\ documents[i].similarity >= documents[j].similarity
           /\ Len(documents) <= 30
           /\ Len(documents) = (IF Cardinality(fetched_ids) < 30 THEN Cardinality(fetched_ids) ELSE 30)
           /\ ChunkIds(documents) \subseteq fetched_ids
           /\ \A i \in 1..Len(documents) : \A v \in cut_off : documents[i].similarity >= v

\* Three searches returned 36 distinct chunks, of which the cut dropped
\* chunks with the lower similarity and kept some with it.
C11_Witness ==
    /\ LastVisit = "retrieve"
    /\ Len(calls[Len(calls)]) = 3
    /\ Cardinality(ChunkIds(Fetched)) > 30
    /\ Len(state.documents) = 30
    /\ state.documents[1].similarity > state.documents[30].similarity
    /\ state.documents[30].similarity \in CutOffSimilarities

\* The queries the latest run of the retrieve node called the retriever
\* with.  The loop is sequential and ends at a call that raises, so when the
\* node raised, the calls before the last one are the calls that returned.
LatestCalls == calls[Len(calls)]

\* C12: when the retrieve node has raised, the retriever was called for
\* every rewritten query (a failing call does not abort the sibling calls)
\* and none of these calls returned (the step fails only when every call
\* fails).
C12_SiblingCallsSurvive ==
    (pc = RAISED /\ raised.node = "retrieve") =>
        /\ LatestCalls = state.rewritten_queries
        /\ Len(LatestCalls) = 1

\* The number of visits that write final_answer.
AnswerVisits == VisitCount("generate") + VisitCount("direct")

\* C13: final_answer is empty as long as neither generate nor direct has
\* run; at most one of their visits happens in a run, it is the last visit
\* (the run is at END right after it and only then), final_answer is that
\* visit's answer, and the visit is generate on the RAG path and direct on
\* the greeting path.
C13_FinalAnswerOnce ==
    /\ AnswerVisits <= 1
    /\ AnswerVisits = 0 => (state.final_answer = <<>> /\ pc # END)
    /\ AnswerVisits = 1 =>
          /\ pc = END
          /\ LastVisit = (IF state.needs_retrieval THEN "generate" ELSE "direct")
          /\ llm.node = LastVisit
          /\ state.final_answer = (IF isinstance_str(llm.content) THEN llm.content
                                   ELSE state.final_answer)

\* A completed run that went twice round the loop before generate wrote the
\* answer.
C13_Witness ==
    /\ pc = END
    /\ AnswerVisits = 1
    /\ state.final_answer = <<"o", "k">>
    /\ VisitCount("query_rewrite") = 2

\* The events agent_stream_query has yielded: the payloads of the items of
\* stream_chat other than the end marker.
Events ==
    LET items == SelectSeq(yielded, LAMBDA item : item # DONE)
    IN [i \in 1..Len(items) |-> items[i][2].json]

StepEvents == SelectSeq(Events, LAMBDA event : event.type = "step")

\* The step type of each node.
StepLabel ==
    [route |-> "route", query_rewrite |-> "rewrite", retrieve |-> "retrieve",
     grade |-> "grade", generate |-> "generate", direct |-> "generate"]

\* C14: the step events of a streaming run are, in order, one per node visit:
\* the i-th step event carries the trace entry that the i-th visit appended
\* and the step type of the node visited.
C14_OneStepEventPerVisit ==
    LET steps == StepEvents
    IN /\ Len(steps) = Len(visits)
       /\ \A i \in 1..Len(visits) :
             /\ steps[i].step = StepLabel[visits[i]]
             /\ steps[i].content = state.reasoning_steps[i].content

\* C15: no two step events of a run carry the same step type and the same
\* trace text (events of one node carry the same step type, so no node's
\* trace text is emitted twice for it).
C15_NoRepeatedStepEvent ==
    LET steps == StepEvents
    IN \A i \in 1..Len(steps) : \A j \in 1..Len(steps) :
          i < j => ~(/\ steps[i].step = steps[j].step
                     /\ steps[i].content = steps[j].content)

\* Both grade visits of a run appended the same trace text, and the stream
\* carries it once under the grade step type.
C15_Witness ==
    /\ VisitCount("grade") = 2
    /\ LastVisit = "grade"
    /\ state.reasoning_steps[4].content = state.reasoning_steps[7].content
    /\ Cardinality({i \in 1..Len(StepEvents) :
                      /\ StepEvents[i].step = "grade"
                      /\ StepEvents[i].content = state.reasoning_steps[7].content}) = 1

\* C16: once the stream of a run has ended, with the workflow completed or
\* with a node having raised, the last item yielded is the [DONE] marker.
C16_EndsWithDone ==
    pc \in {END, RAISED} => (yielded # <<>> /\ yielded[Len(yielded)] = DONE)

\* The item of an error event with the given message.
ErrorItem(message) == <<"data: ", [json |-> [type |-> "error", content |-> message]], "\n\n">>

\* C17: the step in which a node raises appends to the items yielded so far
\* exactly one item, the error event whose content is the exception's
\* message, and nothing is yielded and no node runs after it.
C17_ErrorEventThenStop ==
    [][/\ pc # RAISED
       /\ pc' = RAISED => yielded' = Append(yielded, ErrorItem(raised'.message))]_vars

\* The model call of the second grade visit raised, after the events of six
\* node visits had been yielded; the stream ends with the error event.
C17_Witness ==
    /\ pc = RAISED
    /\ raised = [node |-> "grade", message |-> "model call failed"]
    /\ Len(visits) = 6
    /\ Len(yielded) > 6
    /\ yielded[Len(yielded)] = ErrorItem("model call failed")

\* The responses a cache holds for the request's (query, match_threshold,
\* match_count) triple.
StoredFor(cache, request) ==
    {cache.cache[k][1] : k \in
        {j \in DOMAIN cache.cache :
            /\ cache.cache[j][1].query = request.query
            /\ cache.cache[j][1].match_threshold = request.match_threshold
            /\ cache.cache[j][1].match_count = request.match_count}}

\* C18: in every call of retrieve, if the cache holds a response for the
\* request's triple, the call returns that response and calls neither the
\* embedding nor the search; otherwise it calls the embedding once and, when
\* that returns, the search once, and when it returns its response is what
\* the cache then holds for the triple.  No call changes the response the
\* cache holds for another triple.
C18_CacheHitAndMiss ==
    [][LET request == retrieved'.request
           returned == retrieved'.returned
       IN /\ StoredFor(result_cache, request) # {} =>
                /\ ~returned.raised
                /\ ~returned.embedded /\ ~returned.searched
                /\ StoredFor(result_cache, request) = {returned.response}
          /\ StoredFor(result_cache, request) = {} =>
                /\ returned.embedded
                /\ ~returned.raised =>
                      (returned.searched /\ StoredFor(result_cache', request) = {returned.response})
                /\ returned.raised => result_cache' = result_cache
          /\ \A k \in DOMAIN result_cache.cache :
                k \in DOMAIN result_cache'.cache /\ result_cache'.cache[k][1] = result_cache.cache[k][1]
      ]_vars

\* The third call repeated the first call's triple after a call with another
\* triple, and was served from the cache.
C18_Witness ==
    /\ result_cache._access_counter = 3
    /\ Cardinality(DOMAIN result_cache.cache) = 2
    /\ ~retrieved.returned.raised
    /\ ~retrieved.returned.embedded
    /\ ~retrieved.returned.searched
    /\ retrieved.returned.response.results # <<>>

\* A call of retrieve has been made and has returned.
Returned == retrieved.request.query # <<>> /\ ~retrieved.returned.raised

\* C19: every result of a returned call carries its text exactly when the
\* request's include_text is true, and carries a heading only when
\* include_heading is true.
C19_FlagsHonoured ==
    Returned =>
        \A i \in 1..Len(retrieved.returned.response.results) :
            LET result == retrieved.returned.response.results[i]
            IN /\ (result.text # None) <=> retrieved.request.include_text
               /\ (result.heading # None) => retrieved.request.include_heading

\* C20: every result of a returned call whose request carries a
\* doc_id_filter has a doc_id of that list.
C20_FilterHonoured ==
    (Returned /\ retrieved.request.doc_id_filter # None) =>
        \A i \in 1..Len(retrieved.returned.response.results) :
            \E j \in 1..Len(retrieved.request.doc_id_filter) :
                retrieved.request.doc_id_filter[j] = retrieved.returned.response.results[i].doc_id

(* ---------------------------------------------------------------------- *)
(* The cache's bound and eviction order                                    *)
(* ---------------------------------------------------------------------- *)
\* The position in `history` of the latest access of `key`: a put, or a get
\* that found it (0: never accessed).
LastAccess(history, key) ==
    LET at == {i \in 1..Len(history) : history[i].key = key /\ history[i].hit}
    IN IF at = {} THEN 0 ELSE CHOOSE i \in at : \A j \in at : j <= i

\* The position in `history` of the put that inserted the entry of `key` the
\* cache holds now: the first put after the key was last absent.
Inserted(history, key) ==
    LET puts == {i \in 1..Len(history) : history[i].key = key /\ history[i].op = "put"}
    IN IF puts = {} THEN 0 ELSE CHOOSE i \in puts : \A j \in puts : i <= j

\* C21: the cache never holds more than `capacity` entries, and a put of a
\* new key into a full cache evicts exactly the entry whose latest access
\* (put, or get that found it) is the oldest, and leaves the others as they were.
C21_BoundedLeastRecentlyUsed ==
    [][LET before == result_cache.cache
           after == result_cache'.cache
           call == cache_calls'[Len(cache_calls')]
       IN /\ LRUCache_size(result_cache') <= result_cache'.capacity
          /\ (call.op = "put" /\ call.key \notin DOMAIN before
                 /\ LRUCache_size(result_cache) = result_cache.capacity)
             => \E lru \in DOMAIN before :
                    /\ \A k \in DOMAIN before :
                           LastAccess(cache_calls, lru) <= LastAccess(cache_calls, k)
                    /\ DOMAIN after = (DOMAIN before \ {lru}) \cup {call.key}
                    /\ \A k \in DOMAIN before \ {lru} : after[k][1] = before[k][1]
      ]_vars

\* A put has found the cache full and has evicted an entry that was not the
\* earliest inserted one: the earliest inserted entry is still cached.
C21_Witness ==
    /\ Len(cache_calls) >= 2
    /\ LET call == cache_calls[Len(cache_calls)]
           earlier == SubSeq(cache_calls, 1, Len(cache_calls) - 1)
       IN /\ call.op = "put"
          /\ LastAccess(earlier, call.key) = 0
          /\ Cardinality({earlier[i].key : i \in {j \in 1..Len(earlier) : earlier[j].op = "put"}})
                 = result_cache.capacity
          /\ result_cache.capacity >= 2
          /\ \E old \in DOMAIN result_cache.cache \ {call.key} :
                 /\ Inserted(earlier, old) = 1
                 /\ \A i \in 2..Len(earlier) :
                        earlier[i].op = "put" => earlier[i].key # old

(* ---------------------------------------------------------------------- *)
(* The cache under two threads                                             *)
(* ---------------------------------------------------------------------- *)
\* The values the puts begun so far carry for `key`.
ValuesPut(key) ==
    {threads[t].value : t \in {u \in Threads : threads[u].op = "put" /\ threads[u].key = key}}
    \cup {cache_calls[i].value :
             i \in {j \in 1..Len(cache_calls) : cache_calls[j].op = "put" /\ cache_calls[j].key = key}}

\* C22: with the statements of two threads interleaved, every get and put
\* behaves as if it ran alone: no call raises, the cache never holds more
\* than `capacity` entries, a put that finds the cache full evicts exactly
\* one entry, and a get returns a miss or a value put for its key.
C22_AtomicUnderInterleaving ==
    /\ LRUCache_size(result_cache) <= result_cache.capacity
    /\ \A i \in 1..Len(cache_calls) :
          LET call == cache_calls[i]
          IN /\ ~call.raised
             /\ (call.op = "put" /\ call.full) => call.evicted = 1
             /\ (call.op = "get" /\ call.returned # None) => call.returned \in ValuesPut(call.key)

(* ---------------------------------------------------------------------- *)
(* The indexing pipeline                                                   *)
(* ---------------------------------------------------------------------- *)
\* The rows the store holds for the file's document.
StoredChunks(md_file) ==
    {row \in store.document_chunks : row.doc_id = get_doc_id(md_file)}

\* The rows of the chunks of the file's content version.
ChunkRows(md_file, content) ==
    {[chunk_id |-> chunk.id, doc_id |-> chunk.doc_id, chunk_index |-> chunk.chunk_index,
      text |-> chunk.text] : chunk \in Range(Chunked(get_doc_id(md_file), content))}

\* The file's chunks and its history record are of the same content: no
\* record and no chunks, or a record with the digest of the content whose
\* chunks are stored.
Agree(md_file) ==
    IF md_file \in DOMAIN store.indexing_history
    THEN \E content \in 1..MaxContent :
            /\ store.indexing_history[md_file] = <<"sha256", content>>
            /\ StoredChunks(md_file) = ChunkRows(md_file, content)
    ELSE StoredChunks(md_file) = {}

Others(r) == {q \in 1..Len(runs) : q # r}

\* C23: when a run has failed while it processed a file, and no other run
\* is at work, the file's chunks and its history record agree: both are of
\* the new content or both of the old.
C23_ChunksAgreeWithHistory ==
    \A r \in 1..Len(runs) :
        (runs[r].pc = "failed" /\ runs[r].md_file # <<>> /\ \A q \in Others(r) : ~InProgress(runs[q]))
            => Agree(runs[r].md_file)

\* C24: at most one pipeline run is in progress at any time.
C24_OneRunAtATime ==
    Cardinality({r \in 1..Len(runs) : InProgress(runs[r])}) <= 1

\* The classification of one file by the result of a detection.
InAdded(run, f) == f \in run.detected.changes.added
InModified(run, f) == f \in run.detected.changes.modified
InDeleted(run, f) == f \in run.detected.changes.deleted

Listed(run, f) == f \in run.detected.current_files
Recorded(run, f) == f \in DOMAIN run.detected.indexing_history
SameDigest(run, f) ==
    run.detected.indexing_history[f] = calculate_file_hash(run.detected.disk, f)

C26_FailureIsolated ==
    \A r \in 1..Len(runs) :
        (runs[r].pc = "failed" /\ runs[r].md_file # <<>>) =>
            /\ "history" \notin Range(runs[r].written)
            /\ "log_file_action" \notin Range(runs[r].written)
            /\ runs[r].added \cup runs[r].modified \cup runs[r].deleted = {}

(* ---------------------------------------------------------------------- *)
(* Retries                                                                 *)
(* ---------------------------------------------------------------------- *)
\* C27: a wrapped call makes at most three attempts.  Every attempt but the
\* latest has failed (for a database function: with a transient error), so
\* a success or a non-transient database error ends the call at once; a
\* call that is still running has attempts left; a call that returned
\* returns its latest attempt's value; a call that raised raises after its
\* latest attempt failed: the third one, or for a database function an
\* earlier one with a non-transient error, whose exception it raises.
C27_BoundedRetries ==
    LET attempts == retrying.calls
        n == Len(attempts)
        database == retrying.policy = "retry_on_transient_error"
        most == IF database THEN MAX_ATTEMPTS ELSE STOP_AFTER_ATTEMPT
        failed(i) == attempts[i].raises # ""
        transient(i) == attempts[i].raises \in TRANSIENT_ERRORS
    IN /\ n <= most
       /\ \A i \in 1..(n - 1) : failed(i) /\ (database => transient(i))
       /\ retrying.status = "running" =>
             /\ n < most
             /\ n >= 1 => (failed(n) /\ (database => transient(n)))
       /\ retrying.status = "returned" =>
             n >= 1 /\ ~failed(n) /\ retrying.result = attempts[n].value
       /\ retrying.status = "raised" =>
             /\ n >= 1 /\ failed(n)
             /\ IF database
                THEN (n = most \/ ~transient(n)) /\ retrying.result = <<attempts[n].raises>>
                ELSE n = most /\ retrying.result = <<"RetryError", attempts[n].raises>>

\* A database function has raised after its third transient failure.
C27_Witness ==
    /\ retrying.policy = "retry_on_transient_error"
    /\ retrying.status = "raised"
    /\ Len(retrying.calls) = MAX_ATTEMPTS
    /\ retrying.calls[MAX_ATTEMPTS].raises \in TRANSIENT_ERRORS

(* ---------------------------------------------------------------------- *)
(* Pooled connections                                                      *)
(* ---------------------------------------------------------------------- *)
\* C28: whenever no database operation is in flight, no connection is
\* checked out of the pool: every operation has put its connection back,
\* whichever way it left the `with` statement.
C28_ConnectionsReturned ==
    pool.pc = "idle" => pool.used = {}

(* ---------------------------------------------------------------------- *)
(* Chunks                                                                  *)
(* ---------------------------------------------------------------------- *)
\* The chunks chunk_document has returned, of all documents.
ReturnedChunks == UNION {Range(chunked.chunks[d]) : d \in DOMAIN chunked.chunks}

\* C29: any two chunks chunk_document returned that differ in doc_id or in
\* chunk_index have different ids, and every chunk handed to insert_chunks
\* has its own row in the store: none was skipped for a row of another
\* document.
C29_ChunkIdsUnique ==
    /\ \A x \in ReturnedChunks, y \in ReturnedChunks :
          (x.doc_id # y.doc_id \/ x.chunk_index # y.chunk_index) => x.id # y.id
    /\ \A d \in 1..chunked.inserted : \A i \in 1..Len(chunked.chunks[d]) :
          \E row \in store.document_chunks :
              /\ row.chunk_id = chunked.chunks[d][i].id
              /\ row.doc_id = chunked.chunks[d][i].doc_id

\* C30: every chunk chunk_document returned has at least min_chunk_size
\* words, and the i-th chunk returned for a document has chunk_index i - 1.
C30_MinimumSizeNoGap ==
    \A d \in DOMAIN chunked.chunks : \A i \in 1..Len(chunked.chunks[d]) :
        /\ chunked.chunks[d][i].word_count >= chunked.sizes.min_chunk_size
        /\ chunked.chunks[d][i].word_count = count_words(chunked.chunks[d][i].text)
        /\ chunked.chunks[d][i].chunk_index = i - 1

\* The first section of the first document was below the minimum size and
\* dropped, and a chunk of a later section was returned.
C30_Witness ==
    /\ chunked.called
    /\ Len(chunked.chunks[1]) >= 1
    /\ \E sections \in {_split_into_sections(chunked.documents[1].text)} :
          /\ Len(sections) >= 2
          /\ count_words(sections[1].content) < chunked.sizes.min_chunk_size
          /\ count_words(sections[1].content) <= chunked.sizes.max_chunk_size

\* C31: every chunk chunk_document returned has at most max_chunk_size
\* words, the words of its overlap prefix included.
C31_HardMaximum ==
    \A d \in DOMAIN chunked.chunks : \A i \in 1..Len(chunked.chunks[d]) :
        count_words(chunked.chunks[d][i].text) <= chunked.sizes.max_chunk_size

\* The characters of a text other than whitespace, in order.
RECURSIVE Squeeze(_)
Squeeze(text) ==
    IF text = <<>> THEN <<>>
    ELSE (IF Head(text) \in Whitespace THEN <<>> ELSE <<Head(text)>>) \o Squeeze(Tail(text))

\* rest is the concatenation of one suffix of each of the texts from the
\* i-th on: of what is left of each chunk when a prefix (its overlap) is
\* taken away.
RECURSIVE SuffixesMake(_, _, _)
SuffixesMake(texts, i, rest) ==
    IF i > Len(texts) THEN rest = <<>>
    ELSE \E k \in 0..Len(rest) :
            /\ k <= Len(texts[i])
            /\ SubSeq(texts[i], Len(texts[i]) - k + 1, Len(texts[i])) = SubSeq(rest, 1, k)
            /\ SuffixesMake(texts, i + 1, SubSeq(rest, k + 1, Len(rest)))

\* C32: for every document chunked, the chunks' portions after their
\* overlap prefixes, concatenated in order, are the document's text
\* (whitespace at the seams aside): nothing of it is missing and nothing is
\* there twice.
C32_ChunksReconstructText ==
    \A d \in DOMAIN chunked.chunks :
        SuffixesMake([i \in 1..Len(chunked.chunks[d]) |-> Squeeze(chunked.chunks[d][i].text)],
                     1, Squeeze(chunked.documents[d].text))

(* ---------------------------------------------------------------------- *)
(* Embeddings                                                              *)
(* ---------------------------------------------------------------------- *)
\* The validated texts that stand for the text of index idx, in order.
PartsOf(idx) ==
    grouped(embedding.validated_texts, embedding.original_indices, idx, 1)

\* The token sequences of some texts, one after the other.
RECURSIVE TokensOf(_)
TokensOf(texts) == IF texts = <<>> THEN <<>> ELSE encode(Head(texts)) \o TokensOf(Tail(texts))

\* C33: once the texts are validated, a text within the limit stands for
\* itself and an oversized text is cut into slices of at most
\* MAX_TOKENS_PER_INPUT - 100 tokens whose tokens, in order, are the
\* text's tokens; and what generate_embeddings returns has one vector per
\* input text, in input order: the text's own vector, or the average of
\* its slices' vectors.
C33_OneVectorPerText ==
    /\ embedding.pc \in {"batch", "returned"} /\ embedding.texts # <<>> =>
          /\ Len(embedding.validated_texts) = Len(embedding.original_indices)
          /\ \A k \in 1..(Len(embedding.original_indices) - 1) :
                embedding.original_indices[k] <= embedding.original_indices[k + 1]
          /\ \A n \in 1..Len(embedding.texts) : \A parts \in {PartsOf(n - 1)} :
                IF Len(encode(embedding.texts[n])) <= MAX_TOKENS_PER_INPUT
                THEN parts = <<embedding.texts[n]>>
                ELSE /\ TokensOf(parts) = encode(embedding.texts[n])
                     /\ \A p \in 1..Len(parts) :
                           /\ Len(encode(parts[p])) >= 1
                           /\ Len(encode(parts[p])) <= MAX_TOKENS_PER_INPUT - 100
    /\ embedding.pc = "returned" =>
          /\ Len(embedding.result) = Len(embedding.texts)
          /\ \A n \in 1..Len(embedding.texts) :
                \A vectors \in {[p \in 1..Len(PartsOf(n - 1)) |-> Embedding(PartsOf(n - 1)[p])]} :
                    embedding.result[n] =
                        IF Len(vectors) = 1 THEN vectors[1]
                        ELSE [c \in 1..2 |-> average([p \in 1..Len(vectors) |-> vectors[p][c]])]

\* generate_embeddings has returned for a text within the limit followed by
\* an oversized one.
C33_Witness ==
    /\ embedding.pc = "returned"
    /\ Len(embedding.texts) >= 2
    /\ Len(encode(embedding.texts[1])) <= MAX_TOKENS_PER_INPUT
    /\ Len(encode(embedding.texts[2])) > MAX_TOKENS_PER_INPUT
    /\ Len(embedding.validated_texts) > Len(embedding.texts)

(* ---------------------------------------------------------------------- *)
(* Citation labels                                                         *)
(* ---------------------------------------------------------------------- *)
\* The text after the last "/" of a doc_id (the whole of it without "/").
LastSegment(doc_id) == SubSeq(doc_id, LastIndex(doc_id, "/") + 1, Len(doc_id))

\* The display name of the category of a doc_id that does not start with
\* livestream/.
CategoryName(doc_id) ==
    IF \E t \in 1..Len(EPISODE_TYPES) : startswith(doc_id, EPISODE_TYPES[t].prefix)
    THEN EPISODE_TYPES[CHOOSE t \in 1..Len(EPISODE_TYPES) :
                          startswith(doc_id, EPISODE_TYPES[t].prefix)].name
    ELSE FALLBACK_NAME

\* C34 as stated: the label is the category's name followed by the last
\* path segment as it is; for livestream/ the livestream name followed by
\* the rest of the path.
C34_LabelOfDocId ==
    citation.called =>
        citation.episode_name =
            IF startswith(citation.doc_id, LIVESTREAM)
            THEN LIVESTREAM_NAME \o SubSeq(citation.doc_id, Len(LIVESTREAM) + 1,
                                           Len(citation.doc_id))
            ELSE CategoryName(citation.doc_id) \o LastSegment(citation.doc_id)

\* C34, amended: the label is the category's name followed by the last
\* path segment without its occurrences of ".md"; for livestream/ the
\* livestream name followed by the rest of the path as it is.
C34_LabelOfDocIdWithoutMd ==
    citation.called =>
        citation.episode_name =
            IF startswith(citation.doc_id, LIVESTREAM)
            THEN LIVESTREAM_NAME \o SubSeq(citation.doc_id, Len(LIVESTREAM) + 1,
                                           Len(citation.doc_id))
            ELSE CategoryName(citation.doc_id)
                     \o str_replace(LastSegment(citation.doc_id), <<".", "m", "d">>, <<>>)

\* A livestream id of several segments has been labelled.
C34_Witness ==
    /\ citation.called
    /\ startswith(citation.doc_id, LIVESTREAM)
    /\ LastIndex(citation.doc_id, "/") > Len(LIVESTREAM)
    /\ Len(citation.episode_name) = Len(LIVESTREAM_NAME) + Len(citation.doc_id) - Len(LIVESTREAM)

(* ---------------------------------------------------------------------- *)
(* The store after a completed run                                         *)
(* ---------------------------------------------------------------------- *)
\* The run started last has completed and no other run is at work.
LastRunCompleted ==
    /\ runs # <<>>
    /\ runs[Len(runs)].pc = "complete"
    /\ \A q \in 1..(Len(runs) - 1) : ~InProgress(runs[q])

\* C35: when the run started last has completed without error (whatever
\* became of the runs before it), the rows stored for every listed file are
\* the chunks of its content on disk, and a file that is not listed has no
\* rows and no history record.
C35_StoreMatchesListing ==
    LastRunCompleted =>
        \A md_file \in IndexerFiles :
            IF md_file \in DOMAIN disk
            THEN StoredChunks(md_file) = ChunkRows(md_file, disk[md_file])
            ELSE StoredChunks(md_file) = {} /\ md_file \notin DOMAIN store.indexing_history

\* C36: when a run detects changes after the run before it has completed
\* and the content directory is the one that run saw, it finds no added, no
\* modified and no deleted file and completes without a database write.
C36_FixedPoint ==
    [][\A r \in 2..Len(runs) :
           (/\ runs[r].pc = "detect"
            /\ runs'[r].pc \notin {"detect", "failed"}
            /\ runs[r - 1].pc = "complete"
            /\ disk = runs[r - 1].detected.disk
            /\ disk' = disk)
               => /\ runs'[r].detected.changes = [added |-> {}, modified |-> {}, deleted |-> {}]
                  /\ runs'[r].pc = "complete"
                  /\ runs'[r].written = <<>>
                  /\ store' = store]_vars

\* C37: a database write that returns normally has had its transaction
\* committed; when the commit fails the operation raises to its caller.
C37_ReturnsOnlyIfCommitted ==
    \A i \in DOMAIN pool.raised : ~pool.raised[i] => pool.committed[i]

\* The similarity a chunk id was first fetched with by the latest visit of
\* the retrieve node.
FirstScore(fetched, chunk_id) == FirstCopy(fetched, chunk_id).similarity

\* C38: right after a visit of the retrieve node every chunk of documents
\* carries the similarity of the first copy fetched of its chunk id (the
\* copy of the earliest rewritten query that returned it), whatever later
\* copies carry; documents is in non-increasing order of these first scores,
\* and no chunk that was cut off has a higher first score than a chunk that
\* was kept.
C38_FirstOccurrenceWins ==
    LastVisit = "retrieve" =>
        \A fetched \in {Fetched} :
            \A documents \in {state.documents} :
                \A first \in {[c \in ChunkIds(fetched) |-> FirstScore(fetched, c)]} :
                    /\ \A i \in 1..Len(documents) :
                           /\ documents[i].chunk_id \in DOMAIN first
                           /\ documents[i].similarity = first[documents[i].chunk_id]
                    /\ \A i \in 1..(Len(documents) - 1) :
                           first[documents[i].chunk_id] >= first[documents[i + 1].chunk_id]
                    /\ \A c \in DOMAIN first \ ChunkIds(documents) :
                           \A i \in 1..Len(documents) : first[documents[i].chunk_id] >= first[c]

\* Three searches returned more than 30 distinct chunks; a chunk that was
\* kept and a chunk that was cut off were both returned a second time with a
\* higher similarity than the first time, the one that was cut off with a
\* higher similarity than the last chunk kept.
C38_Witness ==
    /\ LastVisit = "retrieve"
    /\ Len(calls[Len(calls)]) = 3
    /\ Len(state.documents) = 30
    /\ \E fetched \in {Fetched} :
          /\ \E d \in 1..30 : \E i \in 1..Len(fetched) :
                 /\ fetched[i].chunk_id = state.documents[d].chunk_id
                 /\ fetched[i].similarity > state.documents[d].similarity
          /\ \E i \in 1..Len(fetched) :
                 /\ fetched[i].chunk_id \notin ChunkIds(state.documents)
                 /\ fetched[i].similarity > FirstScore(fetched, fetched[i].chunk_id)
                 /\ fetched[i].similarity > state.documents[30].similarity

\* C39: right after every visit of the rewrite node rewritten_queries holds
\* at least one and at most three search strings, whatever the model's output
\* was.
C39_OneToThreeQueries ==
    LastVisit = "query_rewrite" =>
        /\ Len(state.rewritten_queries) >= 1
        /\ Len(state.rewritten_queries) <= 3

\* C40: a visit of the grade node with documents empty makes no model call,
\* sets relevant_documents to the empty list and appends exactly one trace
\* entry to reasoning_steps; the run then goes to the rewrite node while
\* iteration_count < max_iterations and to the generate node otherwise, as
\* after a grading that found nothing relevant.
C40_EmptyDocumentsSkipGrading ==
    [][(pc = "grade" /\ state.documents = <<>> /\ visits' # visits) =>
           /\ visits' = Append(visits, "grade")
           /\ llm' = [node |-> "grade", content |-> NoCall]
           /\ state'.relevant_documents = <<>>
           /\ Len(state'.reasoning_steps) = Len(state.reasoning_steps) + 1
           /\ SubSeq(state'.reasoning_steps, 1, Len(state.reasoning_steps)) = state.reasoning_steps
           /\ state'.iteration_count = state.iteration_count
           /\ pc' = (IF state.iteration_count < state.max_iterations
                     THEN "query_rewrite" ELSE "generate")]_vars

\* Both rounds retrieved nothing: the second grade visit found documents
\* empty with the iterations used up and sent the run to generate.
C40_Witness ==
    /\ LastVisit = "grade"
    /\ VisitCount("grade") = 2
    /\ llm = [node |-> "grade", content |-> NoCall]
    /\ state.documents = <<>>
    /\ state.relevant_documents = <<>>
    /\ state.iteration_count = state.max_iterations
    /\ pc = "generate"

====
